---- MODULE Spec2Model ----
\* Verification model of the feishu_agent project-management core:
\*   MetadataManager  (src/src/providers/project/managers/metadata_manager.py)
\*   WorkItemProvider (src/src/providers/project/work_item_provider.py)
\*   AuthManager      (src/src/core/auth.py)
\*   ProjectClient    (src/src/core/project_client.py)
\*
\* The specifications of the module:
\*   SpecProvider  one WorkItemProvider instance serving operations one at a time
\*                 (create / query / update / delete / filter) against a remote
\*                 whose metadata is fixed for the run;
\*   SpecMeta      concurrent resolver calls on the MetadataManager caches with
\*                 a clock, per-level locks and a remote whose listings may change;
\*   SpecProject, SpecType, SpecField, SpecUser
\*                 the resolvers of one level, call after call by one caller;
\*   SpecNames     the provider's user-name and work-item-name caches;
\*   SpecFanOut    the six resolvers of one (project, type) field scope;
\*   SpecClear     clear_cache among concurrent resolver calls;
\*   SpecScopes    one scope expiring and reloading among loaded sibling scopes;
\*   SpecTypeKey   the provider's _get_type_key among concurrent operations and
\*                 direct manager calls (FairTypeKey: the same under fairness);
\*   SpecGenerations  concurrent readers of one field scope across reloads,
\*                 failed refreshes and clear_cache;
\*   SpecExtract   _extract_field_value on the shapes a work item comes in;
\*   SpecTasks     get_tasks and resolve_related_to;
\*   SpecAuth      AuthManager.get_plugin_token under ProjectAuth's flow;
\*   SpecClient    ProjectClient's retrying request.
EXTENDS Naturals, Integers, Sequences, FiniteSets, TLC

VARIABLES
    \* ---- remote side, as seen by the provider (fixed during a provider run)
    remoteProjects,        \* dict project name -> project key held by the remote
    remoteTypes,           \* list of {name, type_key} the remote returns for the project
    remoteFields,          \* list of field records the remote returns for (project,type)
    \* ---- WorkItemProvider instance fields
    project_name,          \* self.project_name
    p_project_key,         \* self._project_key
    work_item_type_name,   \* self.work_item_type_name
    p_resolved_type_key,   \* self._resolved_type_key
    _type_key_lock,        \* self._type_key_lock
    \* ---- observation of the provider operation that just ran
    lastOp,                \* the operation and its arguments (NoOp when idle)
    calls,                 \* WorkItemAPI requests it issued, in order
    outcome,               \* what it returned or raised
    p_user_cache,          \* self._user_cache: SimpleCache user key -> display name
    _work_item_cache,      \* self._work_item_cache: SimpleCache str(id) -> name or marker
    lastQuery,             \* per key, how its last query by a cache helper ended (observation)
    \* ---- MetadataManager instance fields (dicts in insertion order)
    _project_cache, _project_last_loaded, _project_lock,
    _type_cache, _type_last_loaded, _type_lock,
    _field_cache, _option_cache, _role_cache, _field_last_loaded, _cache_lock,
    _user_cache, _user_last_loaded, _user_lock,
    \* ---- the callers of the MetadataManager and their environment
    now,                   \* time.time(), in seconds
    ticks,                 \* clock advances so far
    level,                 \* the cache level this run's callers work on
    ncalls,                \* resolver calls started so far
    pc,                    \* per caller: idle, wait (queued on a lock), an await point, done
    call,                  \* per caller: the call in progress and what it observed
    born,                  \* per level: entry -> time of the remote response that produced it
    cleared,               \* clear_cache calls returned so far, and ncalls at the last one
    \* ---- core: settings, AuthManager, ProjectAuth and ProjectClient
    settings,              \* src.core.config.settings, as far as authentication reads it
    _plugin_token,         \* AuthManager._plugin_token
    _expiry_time,          \* AuthManager._expiry_time
    flow,                  \* per caller: its ProjectAuth flow (and get_plugin_token call)
    sent,                  \* the requests the flows yielded to the transport (observation)
    auth_log,              \* token requests issued, and the last successful one (observation)
    client_request         \* the ProjectClient request in progress and its attempts

provVars == <<remoteProjects, remoteTypes, remoteFields, project_name,
              p_project_key, work_item_type_name, p_resolved_type_key,
              _type_key_lock, lastOp, calls, outcome>>
\* The provider's two name caches and what is observed about their queries.
nameVars == <<p_user_cache, _work_item_cache, lastQuery>>
\* The gateway: authentication and the retrying client.
coreVars == <<settings, _plugin_token, _expiry_time, flow, sent, auth_log, client_request>>

\* ------------------------------------------------------------------ values

\* Python's None.
None == "None"

\* A call that returned v / a call that raised an exception of class k.
Ok(v) == [ok |-> TRUE, val |-> v, err |-> ""]
Err(k) == [ok |-> FALSE, val |-> None, err |-> k]

\* Python truthiness of an optional string: None and "" are falsy.
Truthy(s) == s # None /\ s # ""

\* ------------------------------------------------------------------ dicts
\* A Python dict is kept as the sequence of its items in insertion order
\* (next(iter(d.items())) and list(d.keys())[0] depend on that order).

EmptyDict == <<>>
DictKeys(d) == {d[i].k : i \in DOMAIN d}
DictValues(d) == {d[i].v : i \in DOMAIN d}
DictHas(d, key) == \E i \in DOMAIN d : d[i].k = key
DictGet(d, key) == d[CHOOSE i \in DOMAIN d : d[i].k = key].v
\* d[key] = val: an existing key keeps its position, a new key goes last.
DictPut(d, key, val) ==
    IF DictHas(d, key)
    THEN [i \in DOMAIN d |-> IF d[i].k = key THEN [k |-> key, v |-> val] ELSE d[i]]
    ELSE Append(d, [k |-> key, v |-> val])
\* d.get(key, {}) for a dict of dicts.
DictGetOrEmpty(d, key) == IF DictHas(d, key) THEN DictGet(d, key) ELSE EmptyDict

\* ------------------------------------------------------------------ bounds

\* Longest type listing the remote returns.
MaxTypes == 2
\* Most endpoints failing during one provider operation.
MaxDown == 1

\* ------------------------------------------------------------------ remote data

\* work_item_type_name's default in WorkItemProvider.__init__ (a CJK literal in
\* the source, "wen ti guan li"), and an explicitly requested name.
DefaultTypeName == "default_issue_type"
ExplicitTypeName == "custom_type"
OtherTypeName == "requirement"

TypeNames == {DefaultTypeName, ExplicitTypeName, OtherTypeName}
TypeRecord(n) == [name |-> n, type_key |-> "tk_" \o n]

RECURSIVE SeqsNoRepeat(_, _)
\* The sequences of at most n distinct elements of S.
SeqsNoRepeat(S, n) ==
    IF n = 0 THEN {<<>>}
    ELSE LET shorter == SeqsNoRepeat(S, n - 1)
         IN shorter \cup
            UNION {{Append(s, x) : x \in S \ {s[i] : i \in DOMAIN s}} : s \in shorter}

\* What get_work_item_types can answer for the project.
TypeListings == {[i \in DOMAIN s |-> TypeRecord(s[i])] : s \in SeqsNoRepeat(TypeNames, MaxTypes)}

\* Field records as get_all_fields returns them.
F_description ==
    [field_name |-> "description", field_key |-> "field_description",
     field_alias |-> "", options |-> <<>>]
F_priority ==
    [field_name |-> "priority_cn", field_key |-> "field_priority",
     field_alias |-> "priority",
     options |-> <<[label |-> "P0", value |-> "opt_P0"],
                   [label |-> "P1", value |-> "opt_P1"]>>]
F_status ==
    [field_name |-> "status", field_key |-> "field_status", field_alias |-> "",
     options |-> <<[label |-> "open", value |-> "opt_open"]>>]

\* What get_all_fields can answer for the (project, type) scope: any
\* sub-list of the three fields the provider resolves by name.
FieldListings ==
    {(IF d THEN <<F_description>> ELSE <<>>) \o (IF p THEN <<F_priority>> ELSE <<>>)
        \o (IF s THEN <<F_status>> ELSE <<>>) : d \in BOOLEAN, p \in BOOLEAN, s \in BOOLEAN}

TheProjectName == "Project Management"
TheProjectKey == "project_xxx"
ProjectListings == {EmptyDict, <<[k |-> TheProjectName, v |-> TheProjectKey]>>}

\* Exception classes. The resolvers raise the base class Exception for a name
\* that is not found; the API layer raises Exception on err_code != 0 and
\* resp.json() raises a ValueError subclass on a malformed body.
RemoteErrKinds == {"Exception", "ValueError"}

\* ------------------------------------------------------------------ user keys
\* Identifiers are spelled out so that _looks_like_user_key can be computed
\* character by character.

CJK == "<cjk>"
AlnumChars == {"a", "b", "g", "h", "n", "o", "s", "t", "u", "z", "i", "e", "r",
               "0", "1", "2", "4", "7"}
CharsOf(s) ==
    CASE s = "zhang san" -> <<"z", "h", "a", "n", "g", " ", "s", "a", "n">>
      [] s = "ghost one" -> <<"g", "h", "o", "s", "t", " ", "o", "n", "e">>
      [] s = "user_42"   -> <<"u", "s", "e", "r", "_", "4", "2">>
      [] s = "7001"      -> <<"7", "0", "0", "1">>
      [] s = "zhangsan"  -> <<"z", "h", "a", "n", "g", "s", "a", "n">>
      [] s = "u_1"       -> <<"u", "_", "1">>
      [] s = "zhang"     -> <<"z", "h", "a", "n", "g">>
      [] OTHER           -> <<>>

StartsWith(cs, prefix) ==
    /\ Len(cs) >= Len(prefix)
    /\ \A i \in DOMAIN prefix : cs[i] = prefix[i]

\* The heuristic without its prefix rule.
looks_like_user_key_by_charset(identifier) ==
    LET cs == CharsOf(identifier)
    IN IF identifier = None \/ cs = <<>> THEN FALSE
       ELSE IF \E i \in DOMAIN cs : cs[i] = " " THEN FALSE
       ELSE IF \E i \in DOMAIN cs : cs[i] = CJK THEN FALSE
       ELSE IF 5 <= Len(cs) /\ Len(cs) <= 100
            THEN \A i \in DOMAIN cs : cs[i] \in AlnumChars \/ cs[i] \in {"_", "-"}
            ELSE FALSE
\* MetadataManager._looks_like_user_key.
looks_like_user_key(identifier) ==
    LET cs == CharsOf(identifier)
        common_prefixes == {<<"u", "s", "e", "r", "_">>, <<"o", "u", "_">>,
                            <<"u", "s", "r", "_">>, <<"u", "_">>}
    IN IF identifier = None \/ cs = <<>> THEN FALSE
       ELSE IF \E p \in common_prefixes : StartsWith(cs, p) THEN TRUE
       ELSE IF \E i \in DOMAIN cs : cs[i] = " " THEN FALSE
       ELSE IF \E i \in DOMAIN cs : cs[i] = CJK THEN FALSE
       ELSE IF 5 <= Len(cs) /\ Len(cs) <= 100
            THEN \A i \in DOMAIN cs : cs[i] \in AlnumChars \/ cs[i] \in {"_", "-"}
            ELSE FALSE

\* What search_users answers for a free-text query: a list of user records.
search_users(identifier) ==
    IF identifier = "zhang san"
    THEN <<[user_key |-> "7001", name |-> "zhang san", email |-> ""]>>
    ELSE <<>>

\* ------------------------------------------------------------------ MetadataManager: map building and lookup

RECURSIVE TypeMapFill(_, _)
\* get_type_key / list_types: "for t in types: if t_name and t_key: cache[t_name] = t_key",
\* written into the project's existing dict d.
\* (A listing of several types is filled first half first, then second
\* half, the first half being complete (Len(d1) >= 0 is true) before the
\* second starts: the same assignments in the same order, in shallow depth.)
TypeMapFill(d, types) ==
    IF types = <<>> THEN d
    ELSE IF Len(types) = 1
    THEN LET t == Head(types)
         IN IF Truthy(t.name) /\ Truthy(t.type_key)
            THEN DictPut(d, t.name, t.type_key) ELSE d
    ELSE LET half == Len(types) \div 2
             d1 == TypeMapFill(d, SubSeq(types, 1, half))
         IN IF Len(d1) >= 0 THEN TypeMapFill(d1, SubSeq(types, half + 1, Len(types))) ELSE d1

\* get_type_key's lookup after the load: exact name only, else Exception.
LookupType(type_map, type_name) ==
    IF DictHas(type_map, type_name) THEN Ok(DictGet(type_map, type_name))
    ELSE Err("Exception")

RECURSIVE FieldMapFillNamesOnly(_, _)
\* The fill that registers each field under its name alone.
FieldMapFillNamesOnly(d, fields) ==
    IF fields = <<>> THEN d
    ELSE LET f == Head(fields)
             d1 == IF Truthy(f.field_name) /\ Truthy(f.field_key)
                   THEN DictPut(d, f.field_name, f.field_key) ELSE d
         IN FieldMapFillNamesOnly(d1, Tail(fields))

RECURSIVE FieldMapFill(_, _)
\* _ensure_field_cache: temp_field_map[f_name] = f_key, and the alias too.
FieldMapFill(d, fields) ==
    IF fields = <<>> THEN d
    ELSE LET f == Head(fields)
             d1 == IF Truthy(f.field_name) /\ Truthy(f.field_key)
                   THEN DictPut(d, f.field_name, f.field_key) ELSE d
             d2 == IF Truthy(f.field_name) /\ Truthy(f.field_key) /\ Truthy(f.field_alias)
                   THEN DictPut(d1, f.field_alias, f.field_key) ELSE d1
         IN FieldMapFill(d2, Tail(fields))

RECURSIVE OptionFill(_, _)
\* "for opt in options: if label and value: temp_option_map[f_key][label] = value".
OptionFill(d, options) ==
    IF options = <<>> THEN d
    ELSE LET opt == Head(options)
         IN OptionFill(IF Truthy(opt.label) /\ Truthy(opt.value)
                       THEN DictPut(d, opt.label, opt.value) ELSE d,
                       Tail(options))

RECURSIVE OptionMapFill(_, _)
\* _ensure_field_cache: "if options and f_key: temp_option_map[f_key] = {...}".
OptionMapFill(d, fields) ==
    IF fields = <<>> THEN d
    ELSE LET f == Head(fields)
         IN OptionMapFill(IF f.options # <<>> /\ Truthy(f.field_key)
                          THEN DictPut(d, f.field_key, OptionFill(EmptyDict, f.options))
                          ELSE d,
                          Tail(fields))

\* The lookup by name or alias alone.
LookupFieldNamesOnly(field_map, field_name) ==
    IF DictHas(field_map, field_name) THEN Ok(DictGet(field_map, field_name))
    ELSE Err("Exception")
\* get_field_key's lookup: name or alias, then the key itself, else Exception.
LookupField(field_map, field_name) ==
    IF DictHas(field_map, field_name) THEN Ok(DictGet(field_map, field_name))
    ELSE IF field_name \in DictValues(field_map) THEN Ok(field_name)
    ELSE Err("Exception")

\* The lookup by label alone.
LookupOptionLabelsOnly(option_cache, field_key, option_label) ==
    LET option_map == DictGetOrEmpty(option_cache, field_key)
    IN IF DictHas(option_map, option_label) THEN Ok(DictGet(option_map, option_label))
       ELSE Err("Exception")
\* get_option_value's lookup: label, then the value itself, else Exception.
LookupOption(option_cache, field_key, option_label) ==
    LET option_map == DictGetOrEmpty(option_cache, field_key)
    IN IF DictHas(option_map, option_label) THEN Ok(DictGet(option_map, option_label))
       ELSE IF option_label \in DictValues(option_map) THEN Ok(option_label)
       ELSE Err("Exception")

RECURSIVE UserCacheFill(_, _)
\* get_user_key: every user of the search result is cached by name and by email.
UserCacheFill(d, users) ==
    IF users = <<>> THEN d
    ELSE LET user == Head(users)
             d1 == IF Truthy(user.user_key) /\ Truthy(user.name)
                   THEN DictPut(d, user.name, user.user_key) ELSE d
             d2 == IF Truthy(user.user_key) /\ Truthy(user.email)
                   THEN DictPut(d1, user.email, user.user_key) ELSE d1
         IN UserCacheFill(d2, Tail(users))

\* get_user_key's answer from a search result loaded into user cache d.
LookupUserAfterSearch(d, identifier, users) ==
    LET filled == UserCacheFill(d, users)
    IN IF users = <<>> THEN Err("Exception")
       ELSE IF DictHas(filled, identifier) THEN Ok(DictGet(filled, identifier))
       ELSE IF Truthy(users[1].user_key) THEN Ok(users[1].user_key)
       ELSE Err("Exception")

\* ------------------------------------------------------------------ MetadataManager as the provider's collaborator
\* The answer one resolver call gives its caller: the lookup in the maps built
\* from what the remote holds, or the remote's failure (endpoint in `down`,
\* raising class `kind`) when the load cannot be done.

get_project_key(name, down, kind) ==
    IF "projects" \in down THEN Err(kind)
    ELSE IF remoteProjects = EmptyDict THEN Err("Exception")
    ELSE IF DictHas(remoteProjects, name) THEN Ok(DictGet(remoteProjects, name))
    ELSE Err("Exception")

get_type_key(project_key, type_name, down, kind) ==
    IF "types" \in down THEN Err(kind)
    ELSE LookupType(TypeMapFill(EmptyDict, remoteTypes), type_name)

list_types(project_key, down, kind) ==
    IF "list_types" \in down THEN Err(kind)
    ELSE Ok(TypeMapFill(EmptyDict, remoteTypes))

get_field_key(project_key, type_key, field_name, down, kind) ==
    IF "fields" \in down THEN Err(kind)
    ELSE LookupField(FieldMapFill(EmptyDict, remoteFields), field_name)

get_option_value(project_key, type_key, field_key, option_label, down, kind) ==
    IF "fields" \in down THEN Err(kind)
    ELSE LookupOption(OptionMapFill(EmptyDict, remoteFields), field_key, option_label)

get_user_key(identifier, down, kind) ==
    IF looks_like_user_key(identifier) THEN Ok(identifier)
    ELSE IF "users" \in down THEN Err(kind)
    ELSE LookupUserAfterSearch(EmptyDict, identifier, search_users(identifier))

\* ------------------------------------------------------------------ WorkItemProvider

\* A request to WorkItemAPI. `fields` is the field_value_pairs / update_fields
\* list, or the search_params condition list.
ApiCall(api, type_key, issue_id, name, fields) ==
    [api |-> api, type_key |-> type_key, issue_id |-> issue_id, name |-> name,
     fields |-> fields]

\* What a provider operation leaves behind: its result, the requests it issued,
\* and the instance fields self._project_key and self._resolved_type_key.
Done(out, cs, pkey, rtk) == [out |-> out, calls |-> cs, pkey |-> pkey, rtk |-> rtk]

\* The classes "except (ValueError, KeyError)" catches.
IsValueOrKeyError(kind) == kind \in {"ValueError", "KeyError"}

\* A handler narrowed to the classes the other handlers of the file name.
CatchesExceptionNarrow(kind) == kind \in {"ValueError", "KeyError"}
\* The classes "except Exception" catches: every exception a call raises.
CatchesException(kind) == TRUE

\* The fallback taken whatever the requested type name is.
MayFallBackAnyName(type_name) == TRUE
\* _get_type_key substitutes another type only for the default type name.
MayFallBack(type_name) == type_name = DefaultTypeName

\* "if x:" in place of "if x is not None": an empty string counts as omitted.
ProvidedIfTruthy(arg) == arg # None /\ arg # ""
\* "if x is not None": the argument was provided.
Provided(arg) == arg # None

\* The request sent without looking at the list.
ShouldSendUpdateAlways(update_fields) == TRUE
\* update_issue's "if update_fields:" before the request.
ShouldSendUpdate(update_fields) == update_fields # <<>>

\* The field list with the priority label put into the create payload.
CreateFieldsWithPriority(description, description_key, assignee, user_key, priority) ==
    (IF Truthy(description)
     THEN <<[field_key |-> description_key, field_value |-> description]>> ELSE <<>>)
    \o (IF Truthy(assignee)
        THEN <<[field_key |-> "owner", field_value |-> user_key]>> ELSE <<>>)
    \o (IF Truthy(priority)
        THEN <<[field_key |-> "field_priority", field_value |-> priority]>> ELSE <<>>)
\* create_issue's minimal field list: description and owner, never priority.
CreateFields(description, description_key, assignee, user_key, priority) ==
    (IF Truthy(description)
     THEN <<[field_key |-> description_key, field_value |-> description]>> ELSE <<>>)
    \o (IF Truthy(assignee)
        THEN <<[field_key |-> "owner", field_value |-> user_key]>> ELSE <<>>)

_get_project_key(pkey, down, kind) ==
    IF Truthy(pkey) THEN [res |-> Ok(pkey), pkey |-> pkey]
    ELSE IF Truthy(project_name)
         THEN LET r == get_project_key(project_name, down, kind)
              IN [res |-> r, pkey |-> IF r.ok THEN r.val ELSE pkey]
         ELSE [res |-> Err("ValueError"), pkey |-> pkey]

_get_type_key(pkey, rtk, down, kind) ==
    IF rtk # None THEN [res |-> Ok(rtk), pkey |-> pkey, rtk |-> rtk]
    ELSE LET p == _get_project_key(pkey, down, kind)
         IN IF ~p.res.ok THEN [res |-> p.res, pkey |-> p.pkey, rtk |-> rtk]
            ELSE LET r == get_type_key(p.res.val, work_item_type_name, down, kind)
                 IN IF r.ok THEN [res |-> r, pkey |-> p.pkey, rtk |-> r.val]
                    ELSE IF ~IsValueOrKeyError(r.err)
                         THEN [res |-> r, pkey |-> p.pkey, rtk |-> rtk]
                    ELSE IF ~MayFallBack(work_item_type_name)
                         THEN [res |-> r, pkey |-> p.pkey, rtk |-> rtk]
                    ELSE LET types == list_types(p.res.val, down, kind)
                         IN IF ~types.ok
                            THEN [res |-> types, pkey |-> p.pkey, rtk |-> rtk]
                            ELSE IF types.val = EmptyDict
                            THEN [res |-> Err("ValueError"), pkey |-> p.pkey, rtk |-> rtk]
                            ELSE [res |-> Ok(types.val[1].v), pkey |-> p.pkey,
                                  rtk |-> types.val[1].v]

\* Raises only what "except (ValueError, KeyError)" does not catch.
_field_exists(project_key, type_key, field_name, down, kind) ==
    LET r == get_field_key(project_key, type_key, field_name, down, kind)
    IN IF r.ok THEN Ok(TRUE)
       ELSE IF IsValueOrKeyError(r.err) THEN Ok(FALSE)
       ELSE r

_resolve_field_value(project_key, type_key, field_key, value, down, kind) ==
    LET r == get_option_value(project_key, type_key, field_key, value, down, kind)
    IN IF r.ok THEN r.val ELSE value

\* A create_issue that sends the create request before it resolves the
\* assignee (and leaves the owner out of the payload when that fails).
create_issue_owner_late(name, priority, description, assignee, down, kind, new_id) ==
    LET p == _get_project_key(p_project_key, down, kind)
    IN IF ~p.res.ok THEN Done(p.res, <<>>, p.pkey, p_resolved_type_key) ELSE
    LET t == _get_type_key(p.pkey, p_resolved_type_key, down, kind)
    IN IF ~t.res.ok THEN Done(t.res, <<>>, t.pkey, t.rtk) ELSE
    LET d == IF Truthy(description)
             THEN get_field_key(p.res.val, t.res.val, "description", down, kind)
             ELSE Ok(None)
    IN IF ~d.ok THEN Done(d, <<>>, t.pkey, t.rtk) ELSE
    LET u == IF Truthy(assignee) THEN get_user_key(assignee, down, kind) ELSE Ok(None)
        create == ApiCall("create", t.res.val, None, name,
                          CreateFields(description, d.val, IF u.ok THEN assignee ELSE None,
                                       u.val, priority))
    IN IF "create" \in down THEN Done(Err(kind), <<create>>, t.pkey, t.rtk)
       ELSE IF ~u.ok THEN Done(u, <<create>>, t.pkey, t.rtk)
       ELSE Done(Ok(new_id), <<create>>, t.pkey, t.rtk)

create_issue(name, priority, description, assignee, down, kind, new_id) ==
    LET p == _get_project_key(p_project_key, down, kind)
    IN IF ~p.res.ok THEN Done(p.res, <<>>, p.pkey, p_resolved_type_key) ELSE
    LET t == _get_type_key(p.pkey, p_resolved_type_key, down, kind)
    IN IF ~t.res.ok THEN Done(t.res, <<>>, t.pkey, t.rtk) ELSE
    LET project_key == p.res.val
        type_key == t.res.val
        d == IF Truthy(description)
             THEN get_field_key(project_key, type_key, "description", down, kind)
             ELSE Ok(None)
    IN IF ~d.ok THEN Done(d, <<>>, t.pkey, t.rtk) ELSE
    LET u == IF Truthy(assignee) THEN get_user_key(assignee, down, kind) ELSE Ok(None)
    IN IF ~u.ok THEN Done(u, <<>>, t.pkey, t.rtk) ELSE
    LET create_fields == CreateFields(description, d.val, assignee, u.val, priority)
        create == ApiCall("create", type_key, None, name, create_fields)
    IN IF "create" \in down THEN Done(Err(kind), <<create>>, t.pkey, t.rtk) ELSE
    LET issue_id == new_id
        f == get_field_key(project_key, type_key, "priority", down, kind)
        option_val == _resolve_field_value(project_key, type_key, f.val, priority, down, kind)
        update == ApiCall("update", type_key, issue_id, None,
                          <<[field_key |-> f.val, field_value |-> option_val]>>)
    IN IF ~Truthy(priority) THEN Done(Ok(issue_id), <<create>>, t.pkey, t.rtk)
       ELSE IF ~f.ok
            THEN IF CatchesException(f.err)
                 THEN Done(Ok(issue_id), <<create>>, t.pkey, t.rtk)
                 ELSE Done(f, <<create>>, t.pkey, t.rtk)
       ELSE IF "update" \in down /\ ~CatchesException(kind)
            THEN Done(Err(kind), <<create, update>>, t.pkey, t.rtk)
       ELSE Done(Ok(issue_id), <<create, update>>, t.pkey, t.rtk)

get_issue_details(issue_id, down, kind, items) ==
    LET p == _get_project_key(p_project_key, down, kind)
    IN IF ~p.res.ok THEN Done(p.res, <<>>, p.pkey, p_resolved_type_key) ELSE
    LET t == _get_type_key(p.pkey, p_resolved_type_key, down, kind)
    IN IF ~t.res.ok THEN Done(t.res, <<>>, t.pkey, t.rtk) ELSE
    LET query == ApiCall("query", t.res.val, issue_id, None, <<>>)
    IN IF "query" \in down THEN Done(Err(kind), <<query>>, t.pkey, t.rtk)
       ELSE IF items = <<>> THEN Done(Err("Exception"), <<query>>, t.pkey, t.rtk)
       ELSE Done(Ok(items[1]), <<query>>, t.pkey, t.rtk)

update_issue(issue_id, name, priority, description, status, assignee, down, kind) ==
    LET p == _get_project_key(p_project_key, down, kind)
    IN IF ~p.res.ok THEN Done(p.res, <<>>, p.pkey, p_resolved_type_key) ELSE
    LET t == _get_type_key(p.pkey, p_resolved_type_key, down, kind)
    IN IF ~t.res.ok THEN Done(t.res, <<>>, t.pkey, t.rtk) ELSE
    LET project_key == p.res.val
        type_key == t.res.val
        f_name == IF Provided(name)
                  THEN <<[field_key |-> "name", field_value |-> name]>> ELSE <<>>
        d == IF Provided(description)
             THEN get_field_key(project_key, type_key, "description", down, kind)
             ELSE Ok(None)
    IN IF ~d.ok THEN Done(d, <<>>, t.pkey, t.rtk) ELSE
    LET f_desc == IF Provided(description)
                  THEN <<[field_key |-> d.val, field_value |-> description]>> ELSE <<>>
        pr == IF Provided(priority)
              THEN get_field_key(project_key, type_key, "priority", down, kind)
              ELSE Ok(None)
    IN IF ~pr.ok THEN Done(pr, <<>>, t.pkey, t.rtk) ELSE
    LET f_prio == IF Provided(priority)
                  THEN <<[field_key |-> pr.val,
                          field_value |-> _resolve_field_value(project_key, type_key,
                                                               pr.val, priority, down, kind)]>>
                  ELSE <<>>
        st == IF Provided(status)
              THEN get_field_key(project_key, type_key, "status", down, kind)
              ELSE Ok(None)
    IN IF ~st.ok THEN Done(st, <<>>, t.pkey, t.rtk) ELSE
    LET f_status == IF Provided(status)
                    THEN <<[field_key |-> st.val,
                            field_value |-> _resolve_field_value(project_key, type_key,
                                                                 st.val, status, down, kind)]>>
                    ELSE <<>>
        u == IF Provided(assignee) THEN get_user_key(assignee, down, kind) ELSE Ok(None)
    IN IF ~u.ok THEN Done(u, <<>>, t.pkey, t.rtk) ELSE
    LET f_owner == IF Provided(assignee)
                   THEN <<[field_key |-> "owner", field_value |-> u.val]>> ELSE <<>>
        update_fields == f_name \o f_desc \o f_prio \o f_status \o f_owner
        update == ApiCall("update", type_key, issue_id, None, update_fields)
    IN IF ~ShouldSendUpdate(update_fields) THEN Done(Ok(None), <<>>, t.pkey, t.rtk)
       ELSE IF "update" \in down THEN Done(Err(kind), <<update>>, t.pkey, t.rtk)
       ELSE Done(Ok(None), <<update>>, t.pkey, t.rtk)

delete_issue(issue_id, down, kind) ==
    LET p == _get_project_key(p_project_key, down, kind)
    IN IF ~p.res.ok THEN Done(p.res, <<>>, p.pkey, p_resolved_type_key) ELSE
    LET t == _get_type_key(p.pkey, p_resolved_type_key, down, kind)
    IN IF ~t.res.ok THEN Done(t.res, <<>>, t.pkey, t.rtk) ELSE
    LET delete == ApiCall("delete", t.res.val, issue_id, None, <<>>)
    IN IF "delete" \in down THEN Done(Err(kind), <<delete>>, t.pkey, t.rtk)
       ELSE Done(Ok(None), <<delete>>, t.pkey, t.rtk)

\* One "IN" condition of filter_issues for a select field: the field's key
\* and every label resolved to its option value (the raw label when it does
\* not resolve).
SelectCondition(project_key, type_key, field_key, labels, down, kind) ==
    [field_key |-> field_key, operator |-> "IN",
     value |-> [i \in DOMAIN labels |->
                  _resolve_field_value(project_key, type_key, field_key, labels[i],
                                       down, kind)]]

filter_issues(status, priority, owner, page_num, page_size, down, kind, result) ==
    LET p == _get_project_key(p_project_key, down, kind)
    IN IF ~p.res.ok THEN Done(p.res, <<>>, p.pkey, p_resolved_type_key) ELSE
    LET t == _get_type_key(p.pkey, p_resolved_type_key, down, kind)
    IN IF ~t.res.ok THEN Done(t.res, <<>>, t.pkey, t.rtk) ELSE
    LET project_key == p.res.val
        type_key == t.res.val
        has_status == status # None /\ status # <<>>
        se == IF has_status
              THEN _field_exists(project_key, type_key, "status", down, kind)
              ELSE Ok(FALSE)
    IN IF ~se.ok THEN Done(se, <<>>, t.pkey, t.rtk) ELSE
    LET c_status ==
            IF has_status /\ se.val
            THEN <<SelectCondition(project_key, type_key,
                      get_field_key(project_key, type_key, "status", down, kind).val,
                      status, down, kind)>>
            ELSE <<>>
        has_priority == priority # None /\ priority # <<>>
        pe == IF has_priority
              THEN _field_exists(project_key, type_key, "priority", down, kind)
              ELSE Ok(FALSE)
    IN IF ~pe.ok THEN Done(pe, <<>>, t.pkey, t.rtk) ELSE
    LET c_priority ==
            IF has_priority /\ pe.val
            THEN <<SelectCondition(project_key, type_key,
                      get_field_key(project_key, type_key, "priority", down, kind).val,
                      priority, down, kind)>>
            ELSE <<>>
        u == IF Truthy(owner) THEN get_user_key(owner, down, kind) ELSE Err("skip")
        c_owner == IF u.ok
                   THEN <<[field_key |-> "owner", operator |-> "IN", value |-> <<u.val>>]>>
                   ELSE <<>>
        conditions == c_status \o c_priority \o c_owner
        search == ApiCall("search_params", type_key, None, None, conditions)
        items == IF result.is_list THEN result.items ELSE result.work_items
        pagination ==
            IF result.is_list
            THEN <<[k |-> "total", v |-> Len(result.items)], [k |-> "page_num", v |-> page_num],
                   [k |-> "page_size", v |-> page_size]>>
            ELSE result.pagination
    IN IF "search_params" \in down THEN Done(Err(kind), <<search>>, t.pkey, t.rtk)
       ELSE Done(Ok([items |-> items,
                     total |-> IF DictHas(pagination, "total")
                               THEN DictGet(pagination, "total") ELSE Len(items),
                     page_num |-> IF DictHas(pagination, "page_num")
                                  THEN DictGet(pagination, "page_num") ELSE page_num,
                     page_size |-> IF DictHas(pagination, "page_size")
                                   THEN DictGet(pagination, "page_size") ELSE page_size]),
                 <<search>>, t.pkey, t.rtk)

\* ---- field values of a work item

\* A JSON value as Python sees it: its type (isinstance) and its content. A
\* {label, value} object keeps its two members in a and b (None when the
\* member is missing), a string in a, a number in n, a list in l.
PyValue(t, a, b, n, l) == [t |-> t, a |-> a, b |-> b, n |-> n, l |-> l]
PyNone == PyValue("none", None, None, 0, <<>>)
PyStr(s) == PyValue("str", s, None, 0, <<>>)
PyInt(n) == PyValue("int", None, None, n, <<>>)
PyOption(label, value) == PyValue("dict", label, value, 0, <<>>)
\* A list of user objects {name, name_cn}, or of strings.
PyList(l) == PyValue("list", None, None, 0, l)
UserObject(name, name_cn) == [t |-> "dict", name |-> name, name_cn |-> name_cn]
StrElement(s) == [t |-> "str", name |-> s, name_cn |-> None]

\* bool(value)
PyTruthy(value) ==
    CASE value.t = "none" -> FALSE
      [] value.t = "str"  -> value.a # ""
      [] value.t = "int"  -> value.n # 0
      [] value.t = "list" -> value.l # <<>>
      [] OTHER            -> value.a # None \/ value.b # None

\* str(value) for a string, a number, and a list of strings.
PyStrOf(value) ==
    CASE value.t = "str"  -> value.a
      [] value.t = "int"  -> ToString(value.n)
      [] value.t = "list" ->
            "[" \o (IF value.l = <<>> THEN "" ELSE "'" \o value.l[1].name \o "'")
                \o (IF Len(value.l) > 1 THEN ", ..." ELSE "") \o "]"
      [] OTHER            -> "None"

\* x or y, for two optional strings.
StrOr(x, y) == IF Truthy(x) THEN x ELSE y

\* What _extract_field_value returns for the field_value of the entry found.
ExtractedValue(value) ==
    IF value.t = "dict" THEN StrOr(value.a, value.b)
    ELSE IF value.t = "list" /\ value.l # <<>> /\ value.l[1].t = "dict"
    THEN StrOr(value.l[1].name, value.l[1].name_cn)
    ELSE IF PyTruthy(value) THEN PyStrOf(value) ELSE None

\* The first entry of a list with the field key.
HasEntry(entries, field_key) == \E i \in DOMAIN entries : entries[i].field_key = field_key
FirstEntry(entries, field_key) ==
    entries[CHOOSE i \in DOMAIN entries :
               /\ entries[i].field_key = field_key
               /\ \A j \in DOMAIN entries : entries[j].field_key = field_key => i <= j]

\* _extract_field_value(item, field_key): the `fields` list first, then
\* `field_value_pairs`; None when neither has the key.
_extract_field_value(item, field_key) ==
    IF HasEntry(item.fields, field_key)
    THEN ExtractedValue(FirstEntry(item.fields, field_key).field_value)
    ELSE IF HasEntry(item.field_value_pairs, field_key)
    THEN ExtractedValue(FirstEntry(item.field_value_pairs, field_key).field_value)
    ELSE None

\* ------------------------------------------------------------------ WorkItemProvider.get_tasks

\* Limits of the related_to scan.
MAX_TOTAL_ITEMS == 2000
MAX_PAGES == 40
BATCH_SIZE == 50
CONCURRENT_PAGES == 5

Min(a, b) == IF a <= b THEN a ELSE b

\* One WorkItemAPI.filter request. `round` numbers the asyncio.gather batch
\* the request belongs to (0: a single awaited request).
FilterCall(type_key, page_num, page_size, work_item_name, work_item_status, round) ==
    [api |-> "filter", type_key |-> type_key, issue_id |-> None,
     name |-> work_item_name, fields |-> work_item_status,
     page_num |-> page_num, page_size |-> page_size, round |-> round]

\* One WorkItemAPI.search_params request of get_tasks.
SearchCall(type_key, conditions, page_num, page_size, fields_to_fetch) ==
    [api |-> "search_params", type_key |-> type_key, issue_id |-> None,
     name |-> None, fields |-> conditions,
     page_num |-> page_num, page_size |-> page_size, select |-> fields_to_fetch]

\* "if related_to": the id is given (None and 0 are not ids).
IdGiven(related_to) == related_to # 0
\* "if status", "if priority": a non-empty list.
PySeqTruthy(l) == l # None /\ l # <<>>

\* A member of a list-valued field that is a work-item id.
IntElement(n) == [t |-> "int", n |-> n]

\* The client-side related_to test: some entry of item["fields"] has a truthy
\* value that is the id, or a list holding the id.
IsRelated(item, related_to) ==
    \E i \in DOMAIN item.fields :
        LET field_value == item.fields[i].field_value
        IN /\ PyTruthy(field_value)
           /\ IF field_value.t = "list"
              THEN \E j \in DOMAIN field_value.l : field_value.l[j] = IntElement(related_to)
              ELSE field_value = PyInt(related_to)

\* str.lower() of the owner strings in use, spelled out.
LowerChars(s) ==
    CASE s = "Zhang San" -> CharsOf("zhang san")
      [] s = "9999"      -> <<"9", "9", "9", "9">>
      [] OTHER           -> CharsOf(s)

\* a in b, for strings spelled out.
IsInfix(a, b) ==
    \E i \in 1..(Len(b) - Len(a) + 1) : SubSeq(b, i, i + Len(a) - 1) = a

\* What one filter page answers during the scan.
PageItems(answer) ==
    IF answer.shape \in {"list", "dict"} THEN answer.items ELSE <<>>

RECURSIVE SumLen(_, _)
\* Items received on the pages `ps` that did not raise.
SumLen(pages, ps) ==
    IF ps = <<>> THEN 0
    ELSE Len(PageItems(pages[Head(ps)])) + SumLen(pages, Tail(ps))

RECURSIVE RelatedOn(_, _, _)
\* The related items of the pages `ps`, in page order.
RelatedOn(pages, ps, related_to) ==
    IF ps = <<>> THEN <<>>
    ELSE SelectSeq(PageItems(pages[Head(ps)]), LAMBDA item : IsRelated(item, related_to))
         \o RelatedOn(pages, Tail(ps), related_to)

\* The scan goes on while fewer than MAX_TOTAL_ITEMS items were fetched and
\* pages up to MAX_PAGES remain.
ScanContinues(total_fetched, current_page) ==
    total_fetched < MAX_TOTAL_ITEMS /\ current_page <= MAX_PAGES

\* A step that starts the next round on the last page of this one.
NextPageOverlapping(current_page) == current_page + CONCURRENT_PAGES - 1
\* "current_page += CONCURRENT_PAGES": the next round starts after this one.
NextPage(current_page) == current_page + CONCURRENT_PAGES

\* A round that stops only at a page without items.
StopsAtEmptyPage(pages, answered) ==
    \E i \in DOMAIN answered : PageItems(pages[answered[i]]) = <<>>
\* should_stop after a round: one of its answered pages is empty
\* ("if not items") or short ("if len(items) < BATCH_SIZE").
ShouldStop(pages, answered) ==
    \E i \in DOMAIN answered :
        \/ PageItems(pages[answered[i]]) = <<>>
        \/ Len(PageItems(pages[answered[i]])) < BATCH_SIZE

RECURSIVE ScanRounds(_, _, _, _, _, _, _, _)
\* The while loop of the scan: one gather of up to CONCURRENT_PAGES page
\* requests per round; a page that raised is skipped, an empty or short page
\* ends the scan after its round.
ScanRounds(type_key, related_to, pages, current_page, total_fetched, round, cs, found_items) ==
    IF ~ScanContinues(total_fetched, current_page)
    THEN [calls |-> cs, found_items |-> found_items, total_fetched |-> total_fetched]
    ELSE LET end_page == Min(current_page + CONCURRENT_PAGES, MAX_PAGES + 1)
             page_range == [i \in 1..(end_page - current_page) |-> current_page + i - 1]
             tasks == [i \in DOMAIN page_range |->
                         FilterCall(type_key, page_range[i], BATCH_SIZE, None, <<>>, round)]
             answered == SelectSeq(page_range, LAMBDA p : pages[p].shape # "raise")
             should_stop == ShouldStop(pages, answered)
             fetched == total_fetched + SumLen(pages, answered)
             found == found_items \o RelatedOn(pages, answered, related_to)
         IN IF should_stop
            THEN [calls |-> cs \o tasks, found_items |-> found, total_fetched |-> fetched]
            ELSE ScanRounds(type_key, related_to, pages, NextPage(current_page),
                            fetched, round + 1, cs \o tasks, found)

\* The post-filter of the name_keyword branch for one item.
KeptAfterFilter(item, priority, owner, related_to, down, kind) ==
    /\ PySeqTruthy(priority) =>
          LET item_priority == _extract_field_value(item, "priority")
          IN \E i \in DOMAIN priority : priority[i] = item_priority
    /\ Truthy(owner) =>
          LET u == get_user_key(owner, down, kind)
              item_owner_key == _extract_field_value(item, "owner")
          IN u.ok /\ Truthy(item_owner_key) /\ item_owner_key # u.val
                => IsInfix(LowerChars(owner), LowerChars(item_owner_key))
    /\ IdGiven(related_to) => IsRelated(item, related_to)

\* The result dict of the two single-request branches.
TasksPage(items, pagination, page_num, page_size) ==
    [items |-> items,
     total |-> IF DictHas(pagination, "total")
               THEN DictGet(pagination, "total") ELSE Len(items),
     page_num |-> IF DictHas(pagination, "page_num")
                  THEN DictGet(pagination, "page_num") ELSE page_num,
     page_size |-> IF DictHas(pagination, "page_size")
                   THEN DictGet(pagination, "page_size") ELSE page_size]

DefaultPagination(total, page_num, page_size) ==
    <<[k |-> "total", v |-> total], [k |-> "page_num", v |-> page_num],
      [k |-> "page_size", v |-> page_size]>>

\* What get_tasks answers once the project and type keys are known: its
\* result and the requests it issued. `related_to` is a work-item id, or 0
\* when the argument is not given. `result` is what the single request
\* answers (shape "raise": it fails), `pages` what each page of the scan
\* answers.
Answer(out, cs) == [out |-> out, calls |-> cs]

TasksFor(project_key, type_key, name_keyword, status, priority, owner, related_to, page_num, page_size, down, kind, result, pages) ==
    IF IdGiven(related_to) /\ ~Truthy(name_keyword) /\ ~PySeqTruthy(status)
       /\ ~PySeqTruthy(priority) /\ ~Truthy(owner)
    THEN LET answers == IF "filter" \in down
                        THEN [q \in DOMAIN pages |-> [shape |-> "raise", items |-> <<>>]]
                        ELSE pages
             scan == ScanRounds(type_key, related_to, answers, 1, 0, 1, <<>>, <<>>)
         IN Answer(Ok([items |-> scan.found_items, total |-> Len(scan.found_items),
                     page_num |-> 1, page_size |-> Len(scan.found_items),
                     hint |-> <<Len(scan.found_items), related_to, scan.total_fetched>>]), scan.calls)
    ELSE IF Truthy(name_keyword)
    THEN LET f == IF PySeqTruthy(status)
                  THEN get_field_key(project_key, type_key, "status", down, kind)
                  ELSE Err("skip")
             resolved_statuses ==
                 IF f.ok
                 THEN [i \in DOMAIN status |->
                         _resolve_field_value(project_key, type_key, f.val, status[i],
                                              down, kind)]
                 ELSE <<>>
             request == FilterCall(type_key, page_num, page_size, name_keyword,
                                   resolved_statuses, 0)
             items == IF result.shape \in {"list", "dict"} THEN result.items ELSE <<>>
             pagination ==
                 IF result.shape = "list"
                 THEN DefaultPagination(Len(items), page_num, page_size)
                 ELSE IF result.shape = "dict"
                 THEN IF result.pagination_is_dict THEN result.pagination
                      ELSE DefaultPagination(IF result.has_total THEN result.total
                                             ELSE Len(items), page_num, page_size)
                 ELSE DefaultPagination(0, page_num, page_size)
             filtered_items ==
                 IF PySeqTruthy(priority) \/ Truthy(owner) \/ IdGiven(related_to)
                 THEN SelectSeq(items, LAMBDA item :
                          KeptAfterFilter(item, priority, owner, related_to, down, kind))
                 ELSE items
         IN IF "filter" \in down \/ result.shape = "raise"
            THEN Answer(Err(kind), <<request>>)
            ELSE Answer(Ok(TasksPage(filtered_items, pagination, page_num, page_size)), <<request>>)
    ELSE
    LET se == IF PySeqTruthy(status)
              THEN _field_exists(project_key, type_key, "status", down, kind)
              ELSE Ok(FALSE)
    IN IF ~se.ok THEN Answer(se, <<>>) ELSE
    LET c_status ==
            IF se.val
            THEN <<SelectCondition(project_key, type_key,
                      get_field_key(project_key, type_key, "status", down, kind).val,
                      status, down, kind)>>
            ELSE <<>>
        pe == IF PySeqTruthy(priority)
              THEN _field_exists(project_key, type_key, "priority", down, kind)
              ELSE Ok(FALSE)
    IN IF ~pe.ok THEN Answer(pe, <<>>) ELSE
    LET c_priority ==
            IF pe.val
            THEN <<SelectCondition(project_key, type_key,
                      get_field_key(project_key, type_key, "priority", down, kind).val,
                      priority, down, kind)>>
            ELSE <<>>
        u == IF Truthy(owner) THEN get_user_key(owner, down, kind) ELSE Err("skip")
        c_owner == IF u.ok
                   THEN <<[field_key |-> "owner", operator |-> "IN", value |-> <<u.val>>]>>
                   ELSE <<>>
        conditions == c_status \o c_priority \o c_owner
        needed_fields == <<"priority", "status", "owner">>
        fetchable == SelectSeq(needed_fields, LAMBDA n :
                         get_field_key(project_key, type_key, n, down, kind).ok)
        fields_to_fetch ==
            IF PySeqTruthy(status) \/ PySeqTruthy(priority) \/ Truthy(owner)
               \/ IdGiven(related_to)
            THEN [i \in DOMAIN fetchable |->
                    get_field_key(project_key, type_key, fetchable[i], down, kind).val]
            ELSE <<>>
        request == SearchCall(type_key, conditions, page_num, page_size, fields_to_fetch)
        items == IF result.shape \in {"list", "dict"} THEN result.items ELSE <<>>
        pagination == IF result.shape = "list"
                      THEN DefaultPagination(Len(items), page_num, page_size)
                      ELSE result.pagination
        filtered_items == IF IdGiven(related_to)
                          THEN SelectSeq(items, LAMBDA item : IsRelated(item, related_to))
                          ELSE items
    IN IF "search_params" \in down \/ result.shape = "raise"
       THEN Answer(Err(kind), <<request>>)
       ELSE IF result.shape = "other"
               \/ (result.shape = "dict" /\ ~result.pagination_is_dict)
       THEN Answer(Err("AttributeError"), <<request>>)
       ELSE Answer(Ok(TasksPage(filtered_items, pagination, page_num, page_size)), <<request>>)

get_tasks(name_keyword, status, priority, owner, related_to, page_num, page_size, down, kind, result, pages) ==
    LET p == _get_project_key(p_project_key, down, kind)
    IN IF ~p.res.ok THEN Done(p.res, <<>>, p.pkey, p_resolved_type_key) ELSE
    LET t == _get_type_key(p.pkey, p_resolved_type_key, down, kind)
    IN IF ~t.res.ok THEN Done(t.res, <<>>, t.pkey, t.rtk) ELSE
    LET r == TasksFor(p.res.val, t.res.val, name_keyword, status, priority, owner,
                      related_to, page_num, page_size, down, kind, result, pages)
    IN Done(r.out, r.calls, t.pkey, t.rtk)

\* ------------------------------------------------------------------ WorkItemProvider.resolve_related_to

\* The work-item types probed for a name, in this order (the Chinese type
\* names are written in English here).
search_types ==
    <<"project management", "requirement management", "issue management", "task",
      "Epic", "transaction management">>

\* The names and numerals in use, spelled out.
TextChars(s) ==
    CASE s = "102"   -> <<"1", "0", "2">>
      [] s = "login" -> <<"l", "o", "g", "i", "n">>
      [] s = "relogin" -> <<"r", "e", "l", "o", "g", "i", "n">>
      [] OTHER       -> CharsOf(s)
Digits == <<"0", "1", "2", "3", "4", "5", "6", "7", "8", "9">>
DigitValue(c) == (CHOOSE i \in DOMAIN Digits : Digits[i] = c) - 1
\* str.isdigit(): not empty, digits only.
IsDigitString(s) ==
    TextChars(s) # <<>>
    /\ \A i \in DOMAIN TextChars(s) : \E d \in DOMAIN Digits : Digits[d] = TextChars(s)[i]
RECURSIVE IntOfChars(_, _)
IntOfChars(cs, acc) ==
    IF cs = <<>> THEN acc ELSE IntOfChars(Tail(cs), 10 * acc + DigitValue(Head(cs)))
\* int(s) of a digit string.
IntOf(s) == IntOfChars(TextChars(s), 0)

\* The type key of the temporary provider made for one probe: a new provider
\* with this provider's project name and key and the probed type name.
TempTypeKey(search_type, down, kind) ==
    LET p == _get_project_key(p_project_key, down, kind)
    IN IF ~p.res.ok THEN [res |-> p.res, project_key |-> None]
       ELSE LET r == get_type_key(p.res.val, search_type, down, kind)
            IN IF r.ok \/ ~IsValueOrKeyError(r.err) \/ ~MayFallBack(search_type)
               THEN [res |-> r, project_key |-> p.res.val]
               ELSE LET types == list_types(p.res.val, down, kind)
                    IN IF ~types.ok THEN [res |-> types, project_key |-> p.res.val]
                       ELSE IF types.val = EmptyDict
                       THEN [res |-> Err("ValueError"), project_key |-> p.res.val]
                       ELSE [res |-> Ok(types.val[1].v), project_key |-> p.res.val]

\* The first item of the list, whatever its name.
FirstOnly(items, text) == items[1]
\* The item a probe settles on: the first whose name is the text, else the
\* first of the list.
ExactOrFirst(items, text) ==
    IF \E i \in DOMAIN items : items[i].name = text
    THEN items[CHOOSE i \in DOMAIN items :
                   /\ items[i].name = text
                   /\ \A j \in 1..(i - 1) : items[j].name # text]
    ELSE items[1]

\* One round of the loop: a provider for search_type is created and asked
\* for the first ten items named like text. `results` gives, per type name,
\* what the filter request of that probe answers.
ProbeType(search_type, text, down, kind, results) ==
    LET t == TempTypeKey(search_type, down, kind)
    IN IF t.res.ok
       THEN TasksFor(t.project_key, t.res.val, text, None, None, None, 0,
                     1, 10, down, kind, results[search_type],
                     [q \in 1..MAX_PAGES |-> [shape |-> "raise", items |-> <<>>]])
       ELSE Answer(t.res, <<>>)

RECURSIVE Probe(_, _, _, _, _, _)
\* The loop over search_types from index i on, r being what the round of
\* search_types[i] returned: the first round with items ends the loop.
Probe(i, text, down, kind, results, cs) ==
    IF i > Len(search_types) THEN [found |-> FALSE, id |-> 0, calls |-> cs]
    ELSE CHOOSE probe \in
            {IF r.out.ok /\ r.out.val.items # <<>>
             THEN [found |-> TRUE, id |-> ExactOrFirst(r.out.val.items, text).id,
                   calls |-> cs \o r.calls]
             ELSE Probe(i + 1, text, down, kind, results, cs \o r.calls) :
             r \in {ProbeType(search_types[i], text, down, kind, results)}} : TRUE

\* `related_to` is an int, a str or something else (None here).
resolve_related_to(related_to, down, kind, results) ==
    IF related_to.t = "int"
    THEN Done(Ok(related_to.n), <<>>, p_project_key, p_resolved_type_key)
    ELSE IF related_to.t = "str"
    THEN IF IsDigitString(related_to.a)
         THEN Done(Ok(IntOf(related_to.a)), <<>>, p_project_key, p_resolved_type_key)
         ELSE LET probe == Probe(1, related_to.a, down, kind, results, <<>>)
              IN IF probe.found
                 THEN Done(Ok(probe.id), probe.calls, p_project_key, p_resolved_type_key)
                 ELSE Done(Err("ValueError"), probe.calls, p_project_key,
                           p_resolved_type_key)
    ELSE Done(Err("ValueError"), <<>>, p_project_key, p_resolved_type_key)

\* ------------------------------------------------------------------ SpecProvider: one provider, one operation at a time

\* The subsets of endpoints E that fail during one operation.
DownSets(E) == {d \in SUBSET E : Cardinality(d) <= MaxDown}

ResolveEndpoints == {"projects", "types", "list_types"}

\* The exception class of a failing endpoint. The class decides something only
\* where a caller catches (ValueError, KeyError): around the type and field
\* resolution.
KindsFor(down) ==
    IF down \cap {"types", "list_types", "fields"} # {} THEN RemoteErrKinds
    ELSE {"Exception"}

NoOp ==
    [op |-> "none", issue_id |-> None, name |-> None, priority |-> None,
     description |-> None, status |-> None, assignee |-> None, down |-> {},
     kind |-> None]

Op(op, issue_id, name, priority, description, status, assignee, down, kind) ==
    [op |-> op, issue_id |-> issue_id, name |-> name, priority |-> priority,
     description |-> description, status |-> status, assignee |-> assignee,
     down |-> down, kind |-> kind]

\* Work-item ids are opaque; the remote assigns new ones from here.
IssueIds == {"1001"}
Assignees == {None, "zhang san", "ghost one"}

\* What search_params answers: a bare list, or {work_items, pagination}.
SearchResults ==
    {[is_list |-> TRUE, items |-> <<"1001">>, work_items |-> <<>>, pagination |-> EmptyDict],
     [is_list |-> FALSE, items |-> <<>>, work_items |-> <<"1001">>,
      pagination |-> <<[k |-> "total", v |-> 7]>>],
     [is_list |-> FALSE, items |-> <<>>, work_items |-> <<>>, pagination |-> EmptyDict]}

\* ------------------------------------------------------------------ MetadataManager: instance state

\* Cache lifetimes in seconds, and the size limit of the project cache.
PROJECT_TTL == 3600
TYPE_TTL == 1800
FIELD_TTL == 1800
USER_TTL == 1800
_max_project_cache_size == 50
_max_type_cache_size == 100
_max_field_cache_size == 200
_max_option_cache_size == 500
_max_user_cache_size == 200

\* Concurrent callers (asyncio tasks) of the shared MetadataManager.
NumCallers == 2
\* Resolver calls started during one run, and clock advances during one run.
MaxCalls == 3
MaxTicks == 2

Procs == 1..NumCallers
Levels == {"project", "type", "field", "user"}
LevelTTL(lv) ==
    CASE lv = "project" -> PROJECT_TTL
      [] lv = "type"    -> TYPE_TTL
      [] lv = "field"   -> FIELD_TTL
      [] OTHER          -> USER_TTL

\* del d[key]
DictDel(d, key) == SelectSeq(d, LAMBDA it : it.k # key)
\* list(d.keys())
DictKeyList(d) == [i \in DOMAIN d |-> d[i].k]

\* asyncio.Lock: the holder and the FIFO of tasks waiting in acquire().
\* (holder is the set of tasks holding it: empty or one task.)
FreeLock == [holder |-> {}, waiters |-> <<>>]
\* acquire() returns without suspending only when the lock is unlocked and
\* nobody is queued; otherwise the task queues behind the others.
CanAcquire(lock) == lock.holder = {} /\ lock.waiters = <<>>
Enqueue(lock, p) == [lock EXCEPT !.waiters = Append(@, p)]
\* release() unlocks and wakes the first waiter; the woken task takes the lock
\* when the event loop resumes it.
Released(lock) == [lock EXCEPT !.holder = {}]
MayResume(lock, p) ==
    lock.holder = {} /\ lock.waiters # <<>> /\ Head(lock.waiters) = p
Dequeued(lock) == [lock EXCEPT !.waiters = Tail(@)]
HeldBy(lock, p) == [lock EXCEPT !.holder = {p}]

\* An Optional[float] timestamp: Never is None, At(t) is the reading t.
Never == <<>>
At(t) == <<t>>
TimeOf(ts) == ts[1]
\* d.get(key) for a dict of timestamps.
DictGetOrNever(d, key) == IF DictHas(d, key) THEN DictGet(d, key) ELSE Never

\* A check that takes every load for expired.
AlwaysExpired(last_loaded, ttl, t) == TRUE
\* _is_cache_expired at clock reading t: never loaded, or older than ttl.
_is_cache_expired(last_loaded, ttl, t) ==
    IF last_loaded = Never THEN TRUE ELSE t - TimeOf(last_loaded) > ttl

\* ---- observation of one resolver call (not program state)
\* How old a remote response received at time b is at time t, relative to
\* the TTL ("none": the entry did not come from a remote response).
AgeClass(b, ttl, t) ==
    IF b = Never THEN "none"
    ELSE IF t - TimeOf(b) < ttl THEN "lt"
    ELSE IF t - TimeOf(b) = ttl THEN "eq"
    ELSE "gt"

\* Whether an entry fetched at time b is older than the TTL at time t.
ServedClass(b, ttl, t) ==
    IF b = Never THEN None ELSE IF t - TimeOf(b) > ttl THEN "stale" ELSE "fresh"

\* No result (yet), where a result may stand.
NoResult == [ok |-> FALSE, val |-> None, err |-> "none"]
\* What a dict holds for a key, as a result.
Held(d, key) == IF DictHas(d, key) THEN Ok(DictGet(d, key)) ELSE NoResult

NoCall ==
    [op |-> None, name |-> None, arg |-> None, startVal |-> NoResult, startAge |-> "none",
     waited |-> FALSE, loadedAt |-> Never, enteredFresh |-> FALSE,
     fetches |-> 0, pending |-> <<>>, answer |-> <<>>, result |-> NoResult,
     served |-> None]
\* A call as it starts: what the cache held for its name (startVal) and how
\* old the remote response that produced that entry was (startAge).
NewCall(op, name, startVal, startAge) ==
    [NoCall EXCEPT !.op = op, !.name = name, !.startVal = startVal,
                   !.startAge = IF startVal = NoResult THEN "none" ELSE startAge]

\* clear_cache was not called yet.
NeverCleared == [times |-> 0, calls |-> 0]

projState == <<_project_cache, _project_last_loaded, _project_lock>>
typeState == <<_type_cache, _type_last_loaded, _type_lock>>
fieldState == <<_field_cache, _option_cache, _role_cache, _field_last_loaded, _cache_lock>>
userState == <<_user_cache, _user_last_loaded, _user_lock>>
metaVars == <<projState, typeState, fieldState, userState,
              now, ticks, level, cleared, ncalls, pc, call, born>>

\* WorkItemProvider.__init__: two empty SimpleCaches.
NameCachesEmpty ==
    p_user_cache = EmptyDict /\ _work_item_cache = EmptyDict /\ lastQuery = EmptyDict

\* MetadataManager.__init__: empty caches, no timestamps, free locks.
Constructed ==
    /\ _project_cache = EmptyDict /\ _project_last_loaded = Never
    /\ _project_lock = FreeLock
    /\ _type_cache = EmptyDict /\ _type_last_loaded = EmptyDict
    /\ _type_lock = FreeLock
    /\ _field_cache = EmptyDict /\ _option_cache = EmptyDict
    /\ _role_cache = EmptyDict /\ _field_last_loaded = EmptyDict
    /\ _cache_lock = FreeLock
    /\ _user_cache = EmptyDict /\ _user_last_loaded = Never
    /\ _user_lock = FreeLock
    /\ now = 0 /\ ticks = 0 /\ ncalls = 0
    /\ pc = [p \in Procs |-> "idle"]
    /\ call = [p \in Procs |-> NoCall]
    /\ born = [lv \in Levels |-> EmptyDict]
    /\ cleared = NeverCleared

\* ------------------------------------------------------------------ core: settings, AuthManager, ProjectClient

\* The settings authentication reads. A static token, or the plugin
\* credentials, or neither.
Settings(user_token, plugin_id, plugin_secret, user_key) ==
    [FEISHU_PROJECT_USER_TOKEN |-> user_token, FEISHU_PROJECT_PLUGIN_ID |-> plugin_id,
     FEISHU_PROJECT_PLUGIN_SECRET |-> plugin_secret, FEISHU_PROJECT_USER_KEY |-> user_key]

\* A caller's ProjectAuth flow at rest.
IdleFlow ==
    [pc |-> "idle", startedAt |-> 0, good |-> <<>>, fetched |-> FALSE, token |-> None,
     raised |-> ""]
\* No ProjectClient request in progress.
NoRequest ==
    [pc |-> "idle", method |-> None, replies |-> <<>>, result |-> [ok |-> FALSE, val |-> 0, err |-> ""]]

\* AuthManager.__init__ and a client that has sent nothing.
AuthConstructed ==
    /\ _plugin_token = None /\ _expiry_time = 0
    /\ flow = [p \in Procs |-> IdleFlow]
    /\ sent = <<>>
    /\ auth_log = [posts |-> 0, good |-> <<>>]
    /\ client_request = NoRequest
\* The gateway takes no part in the run.
NoClient ==
    /\ settings = Settings("static_token", None, None, None)
    /\ AuthConstructed

\* A provider is constructed with a project key, or with a project name to be
\* resolved on first use (__init__ refuses to have neither).
InitProvider ==
    /\ remoteProjects \in ProjectListings
    /\ remoteTypes \in TypeListings
    /\ remoteFields \in FieldListings
    /\ \/ project_name = None /\ p_project_key = TheProjectKey
          /\ remoteProjects # EmptyDict
       \/ project_name = TheProjectName /\ p_project_key = None
    /\ work_item_type_name \in {DefaultTypeName, ExplicitTypeName}
    /\ p_resolved_type_key = None
    /\ _type_key_lock = FreeLock
    /\ lastOp = NoOp
    /\ calls = <<>>
    /\ outcome = None
    /\ level = "none"
    /\ Constructed
    /\ NoClient
    /\ NameCachesEmpty

\* The operation ran: its result and requests are observed, the instance
\* fields it assigned are kept.
Ran(op, r) ==
    /\ lastOp' = op
    /\ calls' = r.calls
    /\ outcome' = r.out
    /\ p_project_key' = r.pkey
    /\ p_resolved_type_key' = r.rtk
    /\ UNCHANGED <<remoteProjects, remoteTypes, remoteFields, project_name,
                   work_item_type_name, _type_key_lock>>
    /\ UNCHANGED <<metaVars, nameVars, coreVars>>

CreateIssue ==
    /\ lastOp = NoOp
    /\ \E priority \in {"", "P0", "P9"}, description \in {"", "text"},
          assignee \in Assignees, new_id \in IssueIds,
          down \in DownSets(ResolveEndpoints \cup {"fields", "users", "create", "update"}) :
          \E kind \in KindsFor(down) :
          Ran(Op("create_issue", None, "T", priority, description, None, assignee, down, kind),
              create_issue("T", priority, description, assignee, down, kind, new_id))

GetIssueDetails ==
    /\ lastOp = NoOp
    /\ \E issue_id \in IssueIds, items \in {<<>>, <<"item_1001">>},
          down \in DownSets(ResolveEndpoints \cup {"query"}) :
          \E kind \in KindsFor(down) :
          Ran(Op("get_issue_details", issue_id, None, None, None, None, None, down, kind),
              get_issue_details(issue_id, down, kind, items))

UpdateIssue ==
    /\ lastOp = NoOp
    /\ \E issue_id \in IssueIds, name \in {None, "", "N"}, priority \in {None, "P0"},
          description \in {None, "text"}, status \in {None, "open"},
          assignee \in {None, "zhang san"},
          down \in DownSets(ResolveEndpoints \cup {"fields", "users", "update"}) :
          \E kind \in KindsFor(down) :
          Ran(Op("update_issue", issue_id, name, priority, description, status, assignee,
                 down, kind),
              update_issue(issue_id, name, priority, description, status, assignee,
                           down, kind))

DeleteIssue ==
    /\ lastOp = NoOp
    /\ \E issue_id \in IssueIds, down \in DownSets(ResolveEndpoints \cup {"delete"}) :
          \E kind \in KindsFor(down) :
          Ran(Op("delete_issue", issue_id, None, None, None, None, None, down, kind),
              delete_issue(issue_id, down, kind))

FilterIssues ==
    /\ lastOp = NoOp
    /\ \E status \in {None, <<"open", "closed">>},
          priority \in {None, <<"P0">>}, owner \in {None, "zhang san", "ghost one"},
          result \in SearchResults,
          down \in DownSets(ResolveEndpoints \cup {"fields", "users", "search_params"}) :
          \E kind \in KindsFor(down) :
          Ran(Op("filter_issues", None, None, priority, None, status, owner, down, kind),
              filter_issues(status, priority, owner, 1, 20, down, kind, result))

\* The caller takes the result; the provider is idle again.
Return ==
    /\ lastOp # NoOp
    /\ lastOp' = NoOp
    /\ calls' = <<>>
    /\ outcome' = None
    /\ UNCHANGED <<remoteProjects, remoteTypes, remoteFields, project_name,
                   p_project_key, work_item_type_name, p_resolved_type_key,
                   _type_key_lock>>
    /\ UNCHANGED <<metaVars, nameVars, coreVars>>

NextProvider ==
    \/ CreateIssue
    \/ GetIssueDetails
    \/ UpdateIssue
    \/ DeleteIssue
    \/ FilterIssues
    \/ Return

vars == <<provVars, metaVars, nameVars, coreVars>>

SpecProvider == InitProvider /\ [][NextProvider]_vars

\* ------------------------------------------------------------------ MetadataManager under concurrent callers (SpecMeta)
\* A resolver call runs without interruption between two awaits; it yields
\* while queued on a lock and while a remote request is outstanding.

\* del d[k1][k2], d[k1][k2] = v and the guarded lookups of a dict of dicts.
Dict2Has(d, k1, k2) == DictHas(d, k1) /\ DictHas(DictGet(d, k1), k2)
Dict2GetOrNever(d, k1, k2) == DictGetOrNever(DictGetOrEmpty(d, k1), k2)
Dict2Put(d, k1, k2, val) == DictPut(d, k1, DictPut(DictGetOrEmpty(d, k1), k2, val))
\* A deletion that drops the whole outer entry.
Dict2DelOuter(d, k1, k2) == DictDel(d, k1)
\* del d[k1][k2], when it is there.
Dict2Del(d, k1, k2) ==
    IF Dict2Has(d, k1, k2) THEN DictPut(d, k1, DictDel(DictGet(d, k1), k2)) ELSE d

RECURSIVE Stamp(_, _, _)
\* The entries named in a remote response are recorded as fetched at time t.
Stamp(d, names, t) ==
    IF names = <<>> THEN d
    ELSE IF Len(names) = 1 THEN DictPut(d, Head(names), At(t))
    ELSE LET half == Len(names) \div 2
             d1 == Stamp(d, SubSeq(names, 1, half), t)
         IN IF Len(d1) >= 0 THEN Stamp(d1, SubSeq(names, half + 1, Len(names)), t) ELSE d1

Queued(lock) == {lock.waiters[i] : i \in DOMAIN lock.waiters}
\* Caller p proceeds with record c; the callers queued on the lock observe
\* that a load of the scope completed while they waited.
Observed(p, c, lock) ==
    [q \in Procs |->
        IF q = p THEN c
        ELSE IF q \in Queued(lock) THEN [call[q] EXCEPT !.loadedAt = At(now)]
             ELSE call[q]]
\* The record of a call at the moment it holds the lock.
Entered(c, ttl) ==
    [c EXCEPT !.enteredFresh = c.loadedAt # Never /\ now - TimeOf(c.loadedAt) < ttl]
\* The record of a call that returns val from the cache without a fetch.
ServedFromCache(c, val, b, ttl) ==
    [c EXCEPT !.result = val, !.served = ServedClass(b, ttl, now)]

\* ---- L2: work item types of one project

\* The project whose types the callers resolve.
TypeScope == TheProjectKey

\* The types of a project with one type more than the type cache is meant
\* to hold.
ManyTypes ==
    [i \in 1..(_max_type_cache_size + 1) |->
        [name |-> "Type " \o ToString(i), type_key |-> "type_" \o ToString(i)]]
\* What get_work_item_types answers besides, when the remote holds types of
\* its own (remoteTypes): all of them.
TenantTypeListings == IF remoteTypes = <<>> THEN {} ELSE {remoteTypes}

\* get_type_key's second check, under the lock.
TypeRecheck(type_map, type_name) == DictHas(type_map, type_name)

\* The body of "async with self._type_lock:" up to the await, run by caller p
\* as it takes the lock.
GetTypeKeyLocked(p, c, lock) ==
    LET project_key == TypeScope
        last_loaded == DictGetOrNever(_type_last_loaded, project_key)
        expired == _is_cache_expired(last_loaded, TYPE_TTL, now)
        cache1 == IF expired /\ DictHas(_type_cache, project_key)
                  THEN DictPut(_type_cache, project_key, EmptyDict) ELSE _type_cache
        cache2 == IF DictHas(cache1, project_key) THEN cache1
                  ELSE DictPut(cache1, project_key, EmptyDict)
        type_map == DictGet(cache2, project_key)
        born1 == IF expired THEN EmptyDict ELSE born["type"]
        c1 == Entered(c, TYPE_TTL)
    IN /\ _type_cache' = cache2
       /\ _type_last_loaded' = IF expired THEN DictDel(_type_last_loaded, project_key)
                               ELSE _type_last_loaded
       /\ born' = [born EXCEPT !["type"] = born1]
       /\ IF TypeRecheck(type_map, c.name)
          THEN /\ pc' = [pc EXCEPT ![p] = "done"]
               /\ call' = [call EXCEPT ![p] =
                             ServedFromCache(c1, Ok(DictGet(type_map, c.name)),
                                             DictGetOrNever(born1, c.name), TYPE_TTL)]
               /\ _type_lock' = Released(lock)
          ELSE /\ pc' = [pc EXCEPT ![p] = "load"]
               /\ call' = [call EXCEPT ![p] = [c1 EXCEPT !.fetches = @ + 1]]
               /\ _type_lock' = HeldBy(lock, p)

\* get_type_key is called: fast path, or the lock, or the queue of the lock.
GetTypeKey(p) ==
    /\ level = "type" /\ pc[p] = "idle" /\ ncalls < MaxCalls
    /\ ncalls' = ncalls + 1
    /\ \E type_name \in TypeNames :
         LET project_key == TypeScope
             type_map == DictGetOrEmpty(_type_cache, project_key)
             last_loaded == DictGetOrNever(_type_last_loaded, project_key)
             c == NewCall("get_type_key", type_name, Held(type_map, type_name),
                          AgeClass(DictGetOrNever(born["type"], type_name), TYPE_TTL, now))
         IN IF /\ DictHas(_type_cache, project_key)
               /\ DictHas(type_map, type_name)
               /\ ~_is_cache_expired(last_loaded, TYPE_TTL, now)
            THEN /\ pc' = [pc EXCEPT ![p] = "done"]
                 /\ call' = [call EXCEPT ![p] =
                               ServedFromCache(c, Ok(DictGet(type_map, type_name)),
                                               DictGetOrNever(born["type"], type_name),
                                               TYPE_TTL)]
                 /\ UNCHANGED <<typeState, born>>
            ELSE IF CanAcquire(_type_lock)
                 THEN GetTypeKeyLocked(p, c, _type_lock)
                 ELSE /\ pc' = [pc EXCEPT ![p] = "wait"]
                      /\ call' = [call EXCEPT ![p] = [c EXCEPT !.waited = TRUE]]
                      /\ _type_lock' = Enqueue(_type_lock, p)
                      /\ UNCHANGED <<_type_cache, _type_last_loaded, born>>
    /\ UNCHANGED <<coreVars, provVars, nameVars, projState, fieldState, userState, now, ticks, level, cleared>>

\* The lock is handed to the first queued caller.
GetTypeKeyResumed(p) ==
    /\ pc[p] = "wait" /\ call[p].op = "get_type_key"
    /\ MayResume(_type_lock, p)
    /\ GetTypeKeyLocked(p, call[p], Dequeued(_type_lock))
    /\ UNCHANGED <<coreVars, provVars, nameVars, projState, fieldState, userState, now, ticks, level, cleared, ncalls>>

\* get_work_item_types answers: the listing is merged into the project's
\* dict, the timestamp is renewed, the name is looked up, the lock released.
GetTypeKeyLoaded(p) ==
    /\ pc[p] = "load" /\ call[p].op = "get_type_key"
    /\ \E types \in TypeListings \cup TenantTypeListings :
         LET project_key == TypeScope
             fetched == TypeMapFill(EmptyDict, types)
             type_map == TypeMapFill(DictGet(_type_cache, project_key), types)
             c == [call[p] EXCEPT !.result = LookupType(type_map, call[p].name)]
         IN /\ _type_cache' = DictPut(_type_cache, project_key, type_map)
            /\ _type_last_loaded' = DictPut(_type_last_loaded, project_key, At(now))
            /\ born' = [born EXCEPT !["type"] = Stamp(@, DictKeyList(fetched), now)]
            /\ call' = Observed(p, c, _type_lock)
    /\ pc' = [pc EXCEPT ![p] = "done"]
    /\ _type_lock' = Released(_type_lock)
    /\ UNCHANGED <<coreVars, provVars, nameVars, projState, fieldState, userState, now, ticks, level, cleared, ncalls>>

\* A failure path that leaves the lock taken (acquire with no release on the
\* way out).
GetTypeKeyFailedKeepsLock(p) ==
    /\ pc[p] = "load" /\ call[p].op = "get_type_key"
    /\ pc' = [pc EXCEPT ![p] = "done"]
    /\ call' = [call EXCEPT ![p] = [@ EXCEPT !.result = Err("Exception")]]
    /\ UNCHANGED <<coreVars, provVars, nameVars, projState, fieldState, userState, now, ticks, level, cleared, ncalls,
                   _type_cache, _type_last_loaded, _type_lock, born>>

\* get_work_item_types raises: the exception leaves the "async with" block.
GetTypeKeyFailed(p) ==
    /\ pc[p] = "load" /\ call[p].op = "get_type_key"
    /\ pc' = [pc EXCEPT ![p] = "done"]
    /\ call' = [call EXCEPT ![p] = [@ EXCEPT !.result = Err("Exception")]]
    /\ _type_lock' = Released(_type_lock)
    /\ UNCHANGED <<coreVars, provVars, nameVars, projState, fieldState, userState, now, ticks, level, cleared, ncalls,
                   _type_cache, _type_last_loaded, born>>

\* ---- L1: projects

ProjectNames == {TheProjectName, "No Such Project", TheProjectKey}
\* What list_projects answers: the keys of the projects the token can see.
ProjectKeyLists == {<<>>, <<TheProjectKey>>}
\* What get_project_details answers: a dict key -> info, or (unexpectedly) a
\* list of infos carrying project_key, or something else.
P_main == [project_key |-> TheProjectKey, name |-> TheProjectName]
P_unnamed == [project_key |-> "project_yyy", name |-> ""]
ProjectDetails ==
    {[shape |-> "dict", items |-> <<P_main>>],
     [shape |-> "dict", items |-> <<P_unnamed, P_main>>],
     [shape |-> "list", items |-> <<P_main>>],
     [shape |-> "other", items |-> <<>>]}
\* The projects (name -> key) of a tenant with one project more than the
\* project cache is meant to hold.
ManyProjects ==
    [i \in 1..(_max_project_cache_size + 1) |->
        [k |-> "Project " \o ToString(i), v |-> "project_" \o ToString(i)]]
\* What get_project_details answers besides, when the remote holds projects
\* of its own (remoteProjects): all of them.
TenantProjectDetails ==
    IF remoteProjects = EmptyDict THEN {}
    ELSE {[shape |-> "dict",
           items |-> [i \in DOMAIN remoteProjects |->
                        [project_key |-> remoteProjects[i].v,
                         name |-> remoteProjects[i].k]]]}

\* get_project_key's normalisation of the answer to a dict key -> info.
AsProjectDict(projects) ==
    IF projects.shape = "dict" THEN projects.items
    ELSE IF projects.shape = "list" THEN projects.items
    ELSE <<>>

RECURSIVE ProjectMapFill(_, _)
\* "for key, info in projects.items(): if name: cache[name] = key".
\* (An answer of several projects is filled first half first, then second
\* half, the first half being complete (Len(d1) >= 0 is true) before the
\* second starts: the same assignments in the same order, in shallow depth.)
ProjectMapFill(d, items) ==
    IF items = <<>> THEN d
    ELSE IF Len(items) = 1
    THEN LET info == Head(items)
         IN IF Truthy(info.name) THEN DictPut(d, info.name, info.project_key) ELSE d
    ELSE LET half == Len(items) \div 2
             d1 == ProjectMapFill(d, SubSeq(items, 1, half))
         IN IF Len(d1) >= 0 THEN ProjectMapFill(d1, SubSeq(items, half + 1, Len(items))) ELSE d1

\* The size check before filling: at the limit the oldest entry is dropped.
EvictOldestProject(d) ==
    IF Len(d) >= _max_project_cache_size /\ d # <<>> THEN Tail(d) ELSE d

\* get_project_key's second check, under the lock.
ProjectRecheck(cache, name) == DictHas(cache, name)

\* The body of "async with self._project_lock:" up to the first await.
GetProjectKeyLocked(p, c, lock) ==
    LET expired == _is_cache_expired(_project_last_loaded, PROJECT_TTL, now)
        cache1 == IF expired THEN EmptyDict ELSE _project_cache
        born1 == IF expired THEN EmptyDict ELSE born["project"]
        c1 == Entered(c, PROJECT_TTL)
    IN /\ _project_cache' = cache1
       /\ _project_last_loaded' = IF expired THEN Never ELSE _project_last_loaded
       /\ born' = [born EXCEPT !["project"] = born1]
       /\ IF ProjectRecheck(cache1, c.name)
          THEN /\ pc' = [pc EXCEPT ![p] = "done"]
               /\ call' = [call EXCEPT ![p] =
                             ServedFromCache(c1, Ok(DictGet(cache1, c.name)),
                                             DictGetOrNever(born1, c.name), PROJECT_TTL)]
               /\ _project_lock' = Released(lock)
          ELSE /\ pc' = [pc EXCEPT ![p] = "list"]
               /\ call' = [call EXCEPT ![p] = [c1 EXCEPT !.fetches = @ + 1]]
               /\ _project_lock' = HeldBy(lock, p)

\* get_project_key is called.
GetProjectKey(p) ==
    /\ level = "project" /\ pc[p] = "idle" /\ ncalls < MaxCalls
    /\ ncalls' = ncalls + 1
    /\ \E name \in ProjectNames :
         LET c == NewCall("get_project_key", name, Held(_project_cache, name),
                          AgeClass(DictGetOrNever(born["project"], name), PROJECT_TTL, now))
         IN IF /\ DictHas(_project_cache, name)
               /\ ~_is_cache_expired(_project_last_loaded, PROJECT_TTL, now)
            THEN /\ pc' = [pc EXCEPT ![p] = "done"]
                 /\ call' = [call EXCEPT ![p] =
                               ServedFromCache(c, Ok(DictGet(_project_cache, name)),
                                               DictGetOrNever(born["project"], name),
                                               PROJECT_TTL)]
                 /\ UNCHANGED <<projState, born>>
            ELSE IF CanAcquire(_project_lock)
                 THEN GetProjectKeyLocked(p, c, _project_lock)
                 ELSE /\ pc' = [pc EXCEPT ![p] = "wait"]
                      /\ call' = [call EXCEPT ![p] = [c EXCEPT !.waited = TRUE]]
                      /\ _project_lock' = Enqueue(_project_lock, p)
                      /\ UNCHANGED <<_project_cache, _project_last_loaded, born>>
    /\ UNCHANGED <<coreVars, provVars, nameVars, typeState, fieldState, userState, now, ticks, level, cleared>>

GetProjectKeyResumed(p) ==
    /\ pc[p] = "wait" /\ call[p].op = "get_project_key"
    /\ MayResume(_project_lock, p)
    /\ GetProjectKeyLocked(p, call[p], Dequeued(_project_lock))
    /\ UNCHANGED <<coreVars, provVars, nameVars, typeState, fieldState, userState, now, ticks, level, cleared, ncalls>>

\* list_projects answers: no project at all is an Exception, otherwise the
\* details are requested.
GetProjectKeyListed(p) ==
    /\ pc[p] = "list" /\ call[p].op = "get_project_key"
    /\ \E project_keys \in ProjectKeyLists :
         IF project_keys = <<>>
         THEN /\ pc' = [pc EXCEPT ![p] = "done"]
              /\ call' = [call EXCEPT ![p] = [@ EXCEPT !.result = Err("Exception")]]
              /\ _project_lock' = Released(_project_lock)
         ELSE /\ pc' = [pc EXCEPT ![p] = "details"]
              /\ UNCHANGED <<call, _project_lock>>
    /\ UNCHANGED <<coreVars, provVars, nameVars, typeState, fieldState, userState, now, ticks, level, cleared, ncalls,
                   _project_cache, _project_last_loaded, born>>

\* get_project_details answers: the cache is filled, the timestamp set, the
\* name looked up (by name only), the lock released.
GetProjectKeyLoaded(p) ==
    /\ pc[p] = "details" /\ call[p].op = "get_project_key"
    /\ \E projects \in ProjectDetails \cup TenantProjectDetails :
         LET items == AsProjectDict(projects)
             kept == EvictOldestProject(_project_cache)
             fetched == ProjectMapFill(EmptyDict, items)
             cache1 == ProjectMapFill(kept, items)
             born0 == IF kept = _project_cache THEN born["project"]
                      ELSE DictDel(born["project"], _project_cache[1].k)
             c == [call[p] EXCEPT !.result =
                      IF DictHas(cache1, call[p].name)
                      THEN Ok(DictGet(cache1, call[p].name)) ELSE Err("Exception")]
         IN /\ _project_cache' = cache1
            /\ _project_last_loaded' = At(now)
            /\ born' = [born EXCEPT !["project"] = Stamp(born0, DictKeyList(fetched), now)]
            /\ call' = Observed(p, c, _project_lock)
    /\ pc' = [pc EXCEPT ![p] = "done"]
    /\ _project_lock' = Released(_project_lock)
    /\ UNCHANGED <<coreVars, provVars, nameVars, typeState, fieldState, userState, now, ticks, level, cleared, ncalls>>

\* list_projects (the manager's) is called while the lock is free: the cache,
\* if it holds anything and is not expired, is returned as a copy; otherwise
\* it is loaded under the lock.
ListProjects(p) ==
    /\ level = "project" /\ pc[p] = "idle" /\ ncalls < MaxCalls
    /\ CanAcquire(_project_lock)
    /\ ncalls' = ncalls + 1
    /\ LET c == NewCall("list_projects", None, NoResult, "none")
           expired == _is_cache_expired(_project_last_loaded, PROJECT_TTL, now)
       IN IF _project_cache # EmptyDict /\ ~expired
          THEN /\ pc' = [pc EXCEPT ![p] = "done"]
               /\ call' = [call EXCEPT ![p] = [c EXCEPT !.result = Ok(_project_cache)]]
               /\ UNCHANGED <<projState, born>>
          ELSE \* expired (or never loaded): cleared under the lock, so the
               \* second check finds nothing either
               /\ _project_cache' = IF expired THEN EmptyDict ELSE _project_cache
               /\ _project_last_loaded' = IF expired THEN Never ELSE _project_last_loaded
               /\ born' = [born EXCEPT !["project"] = IF expired THEN EmptyDict ELSE @]
               /\ pc' = [pc EXCEPT ![p] = "list"]
               /\ call' = [call EXCEPT ![p] = [c EXCEPT !.fetches = @ + 1]]
               /\ _project_lock' = HeldBy(_project_lock, p)
    /\ UNCHANGED <<coreVars, provVars, nameVars, typeState, fieldState, userState, now, ticks, level, cleared>>

\* ProjectAPI.list_projects answers list_projects: no project at all returns
\* an empty dict, otherwise the details are requested.
ListProjectsListed(p) ==
    /\ pc[p] = "list" /\ call[p].op = "list_projects"
    /\ \E project_keys \in ProjectKeyLists :
         IF project_keys = <<>>
         THEN /\ pc' = [pc EXCEPT ![p] = "done"]
              /\ call' = [call EXCEPT ![p] = [@ EXCEPT !.result = Ok(EmptyDict)]]
              /\ _project_lock' = Released(_project_lock)
         ELSE /\ pc' = [pc EXCEPT ![p] = "details"]
              /\ UNCHANGED <<call, _project_lock>>
    /\ UNCHANGED <<coreVars, provVars, nameVars, typeState, fieldState, userState, now, ticks, level, cleared, ncalls,
                   _project_cache, _project_last_loaded, born>>

\* get_project_details answers list_projects: anything but a dict returns an
\* empty dict; a dict is filled into the cache, with no look at its size, the
\* timestamp is set and a copy of the cache returned.
ListProjectsLoaded(p) ==
    /\ pc[p] = "details" /\ call[p].op = "list_projects"
    /\ \E projects \in ProjectDetails \cup TenantProjectDetails :
         IF projects.shape # "dict"
         THEN /\ call' = [call EXCEPT ![p] = [@ EXCEPT !.result = Ok(EmptyDict)]]
              /\ UNCHANGED <<_project_cache, _project_last_loaded, born>>
         ELSE LET fetched == ProjectMapFill(EmptyDict, projects.items)
                  cache1 == ProjectMapFill(_project_cache, projects.items)
              IN /\ _project_cache' = cache1
                 /\ _project_last_loaded' = At(now)
                 /\ born' = [born EXCEPT !["project"] =
                                Stamp(@, DictKeyList(fetched), now)]
                 /\ call' = Observed(p, [call[p] EXCEPT !.result = Ok(cache1)],
                                     _project_lock)
    /\ pc' = [pc EXCEPT ![p] = "done"]
    /\ _project_lock' = Released(_project_lock)
    /\ UNCHANGED <<coreVars, provVars, nameVars, typeState, fieldState, userState, now, ticks, level, cleared, ncalls>>

\* list_projects or get_project_details raises.
GetProjectKeyFailed(p) ==
    /\ pc[p] \in {"list", "details"} /\ call[p].op \in {"get_project_key", "list_projects"}
    /\ pc' = [pc EXCEPT ![p] = "done"]
    /\ call' = [call EXCEPT ![p] = [@ EXCEPT !.result = Err("Exception")]]
    /\ _project_lock' = Released(_project_lock)
    /\ UNCHANGED <<coreVars, provVars, nameVars, typeState, fieldState, userState, now, ticks, level, cleared, ncalls,
                   _project_cache, _project_last_loaded, born>>

\* ---- L3: fields, options and roles of one (project, type) scope

\* The scope whose fields the callers resolve.
FieldScopeProject == TheProjectKey
FieldScopeType == TypeRecord(DefaultTypeName).type_key
FieldNames == {"priority", "priority_cn", "description", "field_priority"}
\* The field keys and option labels the callers ask options for.
OptionFieldKeys == {"field_priority"}
OptionLabels == {"P0", "P1", "opt_P1"}

\* The role field: its options carry the role keys in long form.
F_role ==
    [field_name |-> "role_cn", field_key |-> "current_status_operator_role",
     field_alias |-> "",
     options |-> <<[label |-> "assignee_cn", value |-> "role_p1_t1_role_a06e00"],
                   [label |-> "reporter_cn", value |-> "reporter"]>>]
\* A priority field whose first option carries, as its value, the label of
\* the second option.
F_priority_shifted ==
    [field_name |-> "priority_cn", field_key |-> "field_priority",
     field_alias |-> "priority",
     options |-> <<[label |-> "P0", value |-> "P1"],
                   [label |-> "P1", value |-> "opt_P1"]>>]
\* A custom field named like the alias of the priority field.
F_custom_priority ==
    [field_name |-> "priority", field_key |-> "field_a1b2c3", field_alias |-> "",
     options |-> <<>>]
\* What get_all_fields answers in a run of the manager.
FieldResponses ==
    {<<>>, <<F_priority>>, <<F_description, F_priority, F_status>>, <<F_priority, F_role>>,
     <<F_priority_shifted>>, <<F_priority, F_custom_priority>>}

\* value.split("_") and str.startswith("role") for the option values in use.
SplitUnderscore(value) ==
    CASE value = "role_p1_t1_role_a06e00" -> <<"role", "p1", "t1", "role", "a06e00">>
      [] value = "role_b17f11"            -> <<"role", "b17f11">>
      [] OTHER                            -> <<value>>
StartsWithRole(s) == s \in {"role", "role_b17f11", "role_p1_t1_role_a06e00"}

\* The short role key _ensure_field_cache derives from an option value.
ShortRoleKey(value) ==
    LET parts == SplitUnderscore(value)
        n == Len(parts)
    IN IF n >= 2 /\ parts[n - 1] = "role" THEN "role_" \o parts[n]
       ELSE IF n >= 2 /\ parts[1] = "role" THEN value
       ELSE IF StartsWithRole(parts[n]) THEN parts[n]
       ELSE "role_" \o parts[n]

RECURSIVE RoleFill(_, _)
RoleFill(d, options) ==
    IF options = <<>> THEN d
    ELSE LET opt == Head(options)
         IN RoleFill(IF Truthy(opt.label) /\ Truthy(opt.value)
                     THEN DictPut(d, opt.label, ShortRoleKey(opt.value)) ELSE d,
                     Tail(options))

RECURSIVE RoleMapFill(_, _)
\* temp_role_map: filled from the options of current_status_operator_role.
RoleMapFill(d, fields) ==
    IF fields = <<>> THEN d
    ELSE LET f == Head(fields)
         IN RoleMapFill(IF f.field_key = "current_status_operator_role" /\ f.options # <<>>
                        THEN RoleFill(d, f.options) ELSE d,
                        Tail(fields))

\* get_field_key after _ensure_field_cache returned: the lookup in the scope's map.
FieldAnswer(field_cache, field_name) ==
    LookupField(DictGetOrEmpty(DictGetOrEmpty(field_cache, FieldScopeProject),
                               FieldScopeType),
                field_name)

\* self._option_cache.get(project_key, {}).get(type_key, {}): the scope's
\* field key -> option map.
ScopeOptions(option_cache) ==
    DictGetOrEmpty(DictGetOrEmpty(option_cache, FieldScopeProject), FieldScopeType)
\* get_option_value after _ensure_field_cache returned.
OptionAnswer(option_cache, field_key, option_label) ==
    LookupOption(ScopeOptions(option_cache), field_key, option_label)
\* list_options after _ensure_field_cache returned: a copy of the field's map.
list_options(option_cache, field_key) ==
    DictGetOrEmpty(ScopeOptions(option_cache), field_key)

\* list_fields after _ensure_field_cache returned: a copy of the scope's map.
list_fields(field_cache) ==
    DictGetOrEmpty(DictGet(field_cache, FieldScopeProject), FieldScopeType)

\* self._role_cache.get(project_key, {}).get(type_key, {}): the scope's
\* role name -> role key map.
ScopeRoles(role_cache) ==
    DictGetOrEmpty(DictGetOrEmpty(role_cache, FieldScopeProject), FieldScopeType)
\* get_role_key's lookup: the name, then the key itself, else Exception.
LookupRole(role_map, role_name) ==
    IF DictHas(role_map, role_name) THEN Ok(DictGet(role_map, role_name))
    ELSE IF role_name \in DictValues(role_map) THEN Ok(role_name)
    ELSE Err("Exception")
\* "key in role_key" for the role keys in use.
KeyWithin(key, role_key) ==
    key = role_key \/ (key = "role_a06e00" /\ role_key = "role_p1_t1_role_a06e00")
\* The first name of the map, in insertion order, whose key passes the test.
FirstRoleName(role_map, role_key, exact) ==
    LET Test(key) == IF exact THEN key = role_key ELSE KeyWithin(key, role_key)
    IN role_map[CHOOSE i \in DOMAIN role_map :
                   /\ Test(role_map[i].v)
                   /\ \A j \in DOMAIN role_map : Test(role_map[j].v) => i <= j].k
\* get_role_name's reverse lookup: the exact key first, then a key contained
\* in role_key, else None.
ReverseLookupRole(role_map, role_key) ==
    IF \E i \in DOMAIN role_map : role_map[i].v = role_key
    THEN FirstRoleName(role_map, role_key, TRUE)
    ELSE IF Truthy(role_key) /\ \E i \in DOMAIN role_map : KeyWithin(role_map[i].v, role_key)
    THEN FirstRoleName(role_map, role_key, FALSE)
    ELSE None

\* What the call of record c answers once the scope is in the cache.
EnsuredAnswer(c, field_cache, option_cache, role_cache) ==
    CASE c.op = "get_field_key" -> FieldAnswer(field_cache, c.name)
      [] c.op = "get_option_value" -> OptionAnswer(option_cache, c.name, c.arg)
      [] c.op = "list_options" -> Ok(list_options(option_cache, c.name))
      [] c.op = "list_fields" -> Ok(list_fields(field_cache))
      [] c.op = "get_role_key" -> LookupRole(ScopeRoles(role_cache), c.name)
      [] c.op = "get_role_name" -> Ok(ReverseLookupRole(ScopeRoles(role_cache), c.name))

\* The body of "async with self._cache_lock:" up to the await.
EnsureFieldCacheLocked(p, c, lock) ==
    LET project_key == FieldScopeProject
        type_key == FieldScopeType
        last_loaded == Dict2GetOrNever(_field_last_loaded, project_key, type_key)
        expired == _is_cache_expired(last_loaded, FIELD_TTL, now)
        fc1 == IF expired THEN Dict2Del(_field_cache, project_key, type_key)
               ELSE _field_cache
        oc1 == IF expired THEN Dict2Del(_option_cache, project_key, type_key)
               ELSE _option_cache
        init == ~DictHas(fc1, project_key)
        fc2 == IF init THEN DictPut(fc1, project_key, EmptyDict) ELSE fc1
        oc2 == IF init THEN DictPut(oc1, project_key, EmptyDict) ELSE oc1
        born1 == IF expired THEN EmptyDict ELSE born["field"]
        c1 == Entered(c, FIELD_TTL)
    IN /\ _field_cache' = fc2
       /\ _option_cache' = oc2
       /\ _field_last_loaded' = IF expired
                                THEN Dict2Del(_field_last_loaded, project_key, type_key)
                                ELSE _field_last_loaded
       /\ born' = [born EXCEPT !["field"] = born1]
       /\ UNCHANGED _role_cache
       /\ IF DictHas(DictGet(fc2, project_key), type_key)
          THEN /\ pc' = [pc EXCEPT ![p] = "done"]
               /\ call' = [call EXCEPT ![p] =
                             ServedFromCache(c1, EnsuredAnswer(c1, fc2, oc2, _role_cache),
                                             DictGetOrNever(born1, type_key), FIELD_TTL)]
               /\ _cache_lock' = Released(lock)
          ELSE /\ pc' = [pc EXCEPT ![p] = "load"]
               /\ call' = [call EXCEPT ![p] = [c1 EXCEPT !.fetches = @ + 1]]
               /\ _cache_lock' = HeldBy(lock, p)

\* A resolver of the field level is called with record c0: the fast path of
\* _ensure_field_cache, or the lock; then the resolver's lookup.
EnsureFieldCache(p, c0) ==
    /\ level = "field" /\ pc[p] = "idle" /\ ncalls < MaxCalls
    /\ ncalls' = ncalls + 1
    /\ LET project_key == FieldScopeProject
           type_key == FieldScopeType
           last_loaded == Dict2GetOrNever(_field_last_loaded, project_key, type_key)
           c == NewCall(c0.op, c0.name,
                        IF Dict2Has(_field_cache, project_key, type_key)
                        THEN EnsuredAnswer(c0, _field_cache, _option_cache, _role_cache) ELSE NoResult,
                        AgeClass(DictGetOrNever(born["field"], type_key), FIELD_TTL, now))
       IN IF /\ Dict2Has(_field_cache, project_key, type_key)
             /\ ~_is_cache_expired(last_loaded, FIELD_TTL, now)
          THEN /\ pc' = [pc EXCEPT ![p] = "done"]
               /\ call' = [call EXCEPT ![p] =
                             ServedFromCache([c EXCEPT !.arg = c0.arg],
                                             EnsuredAnswer(c0, _field_cache, _option_cache, _role_cache),
                                             DictGetOrNever(born["field"], type_key),
                                             FIELD_TTL)]
               /\ UNCHANGED <<fieldState, born>>
          ELSE IF CanAcquire(_cache_lock)
               THEN EnsureFieldCacheLocked(p, [c EXCEPT !.arg = c0.arg], _cache_lock)
               ELSE /\ pc' = [pc EXCEPT ![p] = "wait"]
                    /\ call' = [call EXCEPT ![p] =
                                  [c EXCEPT !.arg = c0.arg, !.waited = TRUE]]
                    /\ _cache_lock' = Enqueue(_cache_lock, p)
                    /\ UNCHANGED <<_field_cache, _option_cache, _role_cache,
                                   _field_last_loaded, born>>
    /\ UNCHANGED <<coreVars, provVars, nameVars, projState, typeState, userState, now, ticks, level, cleared>>

\* get_field_key is called.
GetFieldKey(p) ==
    \E field_name \in FieldNames :
        EnsureFieldCache(p, [op |-> "get_field_key", name |-> field_name, arg |-> None])

\* get_option_value is called.
GetOptionValue(p) ==
    \E field_key \in OptionFieldKeys, option_label \in OptionLabels :
        EnsureFieldCache(p, [op |-> "get_option_value", name |-> field_key,
                             arg |-> option_label])

\* list_options is called.
ListOptions(p) ==
    \E field_key \in OptionFieldKeys :
        EnsureFieldCache(p, [op |-> "list_options", name |-> field_key, arg |-> None])

\* list_fields is called.
ListFields(p) ==
    EnsureFieldCache(p, [op |-> "list_fields", name |-> None, arg |-> None])

\* The role names and role keys the callers ask for.
RoleNames == {"assignee_cn", "role_a06e00", "no such role"}
RoleKeys == {"role_a06e00", "role_p1_t1_role_a06e00", "role_zzz"}

\* get_role_key is called.
GetRoleKey(p) ==
    \E role_name \in RoleNames :
        EnsureFieldCache(p, [op |-> "get_role_key", name |-> role_name, arg |-> None])

\* get_role_name is called.
GetRoleName(p) ==
    \E role_key \in RoleKeys :
        EnsureFieldCache(p, [op |-> "get_role_name", name |-> role_key, arg |-> None])

\* The resolvers that go through _ensure_field_cache.
FieldLevelOps ==
    {"get_field_key", "get_option_value", "list_options",
     "list_fields", "get_role_key", "get_role_name"}

\* A queued caller is woken and enters the critical section.
EnsureFieldCacheResumed(p) ==
    /\ pc[p] = "wait" /\ call[p].op \in FieldLevelOps
    /\ MayResume(_cache_lock, p)
    /\ EnsureFieldCacheLocked(p, call[p], Dequeued(_cache_lock))
    /\ UNCHANGED <<coreVars, provVars, nameVars, projState, typeState, userState, now, ticks, level, cleared, ncalls>>

\* A reload that leaves the role map of the scope as it was.
EnsureFieldCacheLoadedKeepsRoles(p) ==
    /\ pc[p] = "load" /\ call[p].op \in FieldLevelOps
    /\ \E fields \in FieldResponses :
         LET fc == Dict2Put(_field_cache, FieldScopeProject, FieldScopeType,
                            FieldMapFill(EmptyDict, fields))
             oc == Dict2Put(_option_cache, FieldScopeProject, FieldScopeType,
                            OptionMapFill(EmptyDict, fields))
             c == [call[p] EXCEPT !.result = EnsuredAnswer(call[p], fc, oc, _role_cache),
                                  !.answer = fields]
         IN /\ _field_cache' = fc
            /\ _option_cache' = oc
            /\ _field_last_loaded' = Dict2Put(_field_last_loaded, FieldScopeProject,
                                              FieldScopeType, At(now))
            /\ born' = [born EXCEPT !["field"] = DictPut(@, FieldScopeType, At(now))]
            /\ call' = Observed(p, c, _cache_lock)
    /\ pc' = [pc EXCEPT ![p] = "done"]
    /\ _cache_lock' = Released(_cache_lock)
    /\ UNCHANGED <<coreVars, provVars, nameVars, projState, typeState, userState, now, ticks, level, cleared, ncalls,
                   _role_cache>>

\* get_all_fields answers: the three maps of the scope are replaced by the
\* ones built from the answer, the timestamp is set, the resolver looks up.
EnsureFieldCacheLoaded(p) ==
    /\ pc[p] = "load" /\ call[p].op \in FieldLevelOps
    /\ \E fields \in FieldResponses :
         LET project_key == FieldScopeProject
             type_key == FieldScopeType
             temp_field_map == FieldMapFill(EmptyDict, fields)
             temp_option_map == OptionMapFill(EmptyDict, fields)
             temp_role_map == RoleMapFill(EmptyDict, fields)
             fc == Dict2Put(_field_cache, project_key, type_key, temp_field_map)
             oc == Dict2Put(_option_cache, project_key, type_key, temp_option_map)
             rc == Dict2Put(_role_cache, project_key, type_key, temp_role_map)
             c == [call[p] EXCEPT !.result = EnsuredAnswer(call[p], fc, oc, rc),
                                  !.answer = fields]
         IN /\ _field_cache' = fc
            /\ _option_cache' = oc
            /\ _role_cache' = rc
            /\ _field_last_loaded' = Dict2Put(_field_last_loaded, project_key, type_key, At(now))
            /\ born' = [born EXCEPT !["field"] = DictPut(@, type_key, At(now))]
            /\ call' = Observed(p, c, _cache_lock)
    /\ pc' = [pc EXCEPT ![p] = "done"]
    /\ _cache_lock' = Released(_cache_lock)
    /\ UNCHANGED <<coreVars, provVars, nameVars, projState, typeState, userState, now, ticks, level, cleared, ncalls>>

\* A failure path that stamps the scope as loaded all the same.
EnsureFieldCacheFailedMarkedFresh(p) ==
    /\ pc[p] = "load" /\ call[p].op \in FieldLevelOps
    /\ pc' = [pc EXCEPT ![p] = "done"]
    /\ call' = [call EXCEPT ![p] = [@ EXCEPT !.result = Err("Exception")]]
    /\ _cache_lock' = Released(_cache_lock)
    /\ _field_last_loaded' = Dict2Put(_field_last_loaded, FieldScopeProject, FieldScopeType, At(now))
    /\ UNCHANGED <<coreVars, provVars, nameVars, projState, typeState, userState, now, ticks, level, cleared, ncalls,
                   _field_cache, _option_cache, _role_cache, born>>

\* get_all_fields raises.
EnsureFieldCacheFailed(p) ==
    /\ pc[p] = "load" /\ call[p].op \in FieldLevelOps
    /\ pc' = [pc EXCEPT ![p] = "done"]
    /\ call' = [call EXCEPT ![p] = [@ EXCEPT !.result = Err("Exception")]]
    /\ _cache_lock' = Released(_cache_lock)
    /\ UNCHANGED <<coreVars, provVars, nameVars, projState, typeState, userState, now, ticks, level, cleared, ncalls,
                   _field_cache, _option_cache, _role_cache, _field_last_loaded, born>>

\* ---- L-User: users

UserIdentifiers == {"zhang san", "ghost one", "user_42", "u_1", "zhangsan"}
\* What search_users may answer a query with: the users above, or, for
\* "zhang san", the same user under the one-word name the directory holds.
SearchAnswers(identifier) ==
    {search_users(identifier)}
    \cup (IF identifier = "zhang san"
          THEN {<<[user_key |-> "7001", name |-> "zhangsan", email |-> ""]>>}
          ELSE {})
UserKeys == {"7001", "9999"}

\* What query_users answers for one user key: the users it knows.
query_users(user_key) ==
    IF user_key = "7001"
    THEN <<[user_key |-> "7001", name |-> "zhang san", email |-> ""]>>
    ELSE <<>>

\* get_user_name's scan "for name, cached_key in self._user_cache.items()":
\* the first name cached for the key, in insertion order.
HasNameFor(d, user_key) == \E i \in DOMAIN d : d[i].v = user_key
FirstNameFor(d, user_key) ==
    d[CHOOSE i \in DOMAIN d :
        /\ d[i].v = user_key
        /\ \A j \in DOMAIN d : d[j].v = user_key => i <= j].k

\* get_user_key's second check, under the lock.
UserRecheck(cache, identifier) == DictHas(cache, identifier)

\* The body of "async with self._user_lock:" up to the await. An identifier
\* that looks like a user key is cached as its own key and returned; the
\* timestamp is not touched.
GetUserKeyLocked(p, c, lock) ==
    LET identifier == c.name
        expired == _is_cache_expired(_user_last_loaded, USER_TTL, now)
        cache1 == IF expired THEN EmptyDict ELSE _user_cache
        born1 == IF expired THEN EmptyDict ELSE born["user"]
        c1 == Entered(c, USER_TTL)
    IN /\ _user_last_loaded' = IF expired THEN Never ELSE _user_last_loaded
       /\ born' = [born EXCEPT !["user"] = born1]
       /\ IF UserRecheck(cache1, identifier)
          THEN /\ pc' = [pc EXCEPT ![p] = "done"]
               /\ call' = [call EXCEPT ![p] =
                             ServedFromCache(c1, Ok(DictGet(cache1, identifier)),
                                             DictGetOrNever(born1, identifier), USER_TTL)]
               /\ _user_cache' = cache1
               /\ _user_lock' = Released(lock)
          ELSE IF looks_like_user_key(identifier)
          THEN /\ pc' = [pc EXCEPT ![p] = "done"]
               /\ call' = [call EXCEPT ![p] = [c1 EXCEPT !.result = Ok(identifier)]]
               /\ _user_cache' = DictPut(cache1, identifier, identifier)
               /\ _user_lock' = Released(lock)
          ELSE /\ pc' = [pc EXCEPT ![p] = "load"]
               /\ call' = [call EXCEPT ![p] = [c1 EXCEPT !.fetches = @ + 1]]
               /\ _user_cache' = cache1
               /\ _user_lock' = HeldBy(lock, p)

\* get_user_key is called.
GetUserKey(p) ==
    /\ level = "user" /\ pc[p] = "idle" /\ ncalls < MaxCalls
    /\ ncalls' = ncalls + 1
    /\ \E identifier \in UserIdentifiers :
         LET c == NewCall("get_user_key", identifier, Held(_user_cache, identifier),
                          AgeClass(DictGetOrNever(born["user"], identifier), USER_TTL, now))
         IN IF /\ DictHas(_user_cache, identifier)
               /\ ~_is_cache_expired(_user_last_loaded, USER_TTL, now)
            THEN /\ pc' = [pc EXCEPT ![p] = "done"]
                 /\ call' = [call EXCEPT ![p] =
                               ServedFromCache(c, Ok(DictGet(_user_cache, identifier)),
                                               DictGetOrNever(born["user"], identifier),
                                               USER_TTL)]
                 /\ UNCHANGED <<userState, born>>
            ELSE IF CanAcquire(_user_lock)
                 THEN GetUserKeyLocked(p, c, _user_lock)
                 ELSE /\ pc' = [pc EXCEPT ![p] = "wait"]
                      /\ call' = [call EXCEPT ![p] = [c EXCEPT !.waited = TRUE]]
                      /\ _user_lock' = Enqueue(_user_lock, p)
                      /\ UNCHANGED <<_user_cache, _user_last_loaded, born>>
    /\ UNCHANGED <<coreVars, provVars, nameVars, projState, typeState, fieldState, now, ticks, level, cleared>>

GetUserKeyResumed(p) ==
    /\ pc[p] = "wait" /\ call[p].op = "get_user_key"
    /\ MayResume(_user_lock, p)
    /\ GetUserKeyLocked(p, call[p], Dequeued(_user_lock))
    /\ UNCHANGED <<coreVars, provVars, nameVars, projState, typeState, fieldState, now, ticks, level, cleared, ncalls>>

\* search_users answers: nobody found is an Exception; otherwise the users
\* are cached by name and email, the timestamp is set, and the identifier is
\* answered from the cache or with the first user's key.
GetUserKeyLoaded(p) ==
    /\ pc[p] = "load" /\ call[p].op = "get_user_key"
    /\ \E users \in SearchAnswers(call[p].name) :
         LET identifier == call[p].name
             filled == UserCacheFill(_user_cache, users)
             r == LookupUserAfterSearch(_user_cache, identifier, users)
             cache1 == IF r.ok /\ ~DictHas(filled, identifier)
                       THEN DictPut(filled, identifier, r.val) ELSE filled
             fetched == UserCacheFill(EmptyDict, users)
             fetched1 == IF r.ok /\ ~DictHas(filled, identifier)
                         THEN DictPut(fetched, identifier, r.val) ELSE fetched
         IN IF users = <<>>
            THEN /\ call' = [call EXCEPT ![p] = [@ EXCEPT !.result = Err("Exception")]]
                 /\ UNCHANGED <<_user_cache, _user_last_loaded, born>>
            ELSE /\ call' = Observed(p, [call[p] EXCEPT !.result = r], _user_lock)
                 /\ _user_cache' = cache1
                 /\ _user_last_loaded' = At(now)
                 /\ born' = [born EXCEPT !["user"] = Stamp(@, DictKeyList(fetched1), now)]
    /\ pc' = [pc EXCEPT ![p] = "done"]
    /\ _user_lock' = Released(_user_lock)
    /\ UNCHANGED <<coreVars, provVars, nameVars, projState, typeState, fieldState, now, ticks, level, cleared, ncalls>>

\* search_users raises.
GetUserKeyFailed(p) ==
    /\ pc[p] = "load" /\ call[p].op = "get_user_key"
    /\ pc' = [pc EXCEPT ![p] = "done"]
    /\ call' = [call EXCEPT ![p] = [@ EXCEPT !.result = Err("Exception")]]
    /\ _user_lock' = Released(_user_lock)
    /\ UNCHANGED <<coreVars, provVars, nameVars, projState, typeState, fieldState, now, ticks, level, cleared, ncalls,
                   _user_cache, _user_last_loaded, born>>

\* get_user_name is called: the cache is scanned for the key, with no lock
\* and no look at the timestamp; a key not found is asked from the remote.
GetUserName(p) ==
    /\ level = "user" /\ pc[p] = "idle" /\ ncalls < MaxCalls
    /\ ncalls' = ncalls + 1
    /\ \E user_key \in UserKeys :
         LET c == NewCall("get_user_name", user_key, NoResult, "none")
         IN IF HasNameFor(_user_cache, user_key)
            THEN LET name == FirstNameFor(_user_cache, user_key)
                 IN /\ pc' = [pc EXCEPT ![p] = "done"]
                    /\ call' = [call EXCEPT ![p] =
                                  ServedFromCache(c, Ok(name),
                                                  DictGetOrNever(born["user"], name),
                                                  USER_TTL)]
            ELSE /\ pc' = [pc EXCEPT ![p] = "query"]
                 /\ call' = [call EXCEPT ![p] = [c EXCEPT !.fetches = @ + 1]]
    /\ UNCHANGED <<coreVars, provVars, nameVars, projState, typeState, fieldState, userState,
                   now, ticks, level, cleared, born>>

\* query_users answers: the name of the first user is cached for the key
\* (the timestamp is not touched) and returned; nobody found returns None.
GetUserNameQueried(p) ==
    /\ pc[p] = "query" /\ call[p].op = "get_user_name"
    /\ LET user_key == call[p].name
           users == query_users(user_key)
       IN IF users # <<>> /\ Truthy(users[1].name)
          THEN /\ _user_cache' = DictPut(_user_cache, users[1].name, user_key)
               /\ born' = [born EXCEPT !["user"] = DictPut(@, users[1].name, At(now))]
               /\ call' = [call EXCEPT ![p] = [@ EXCEPT !.result = Ok(users[1].name)]]
          ELSE /\ call' = [call EXCEPT ![p] = [@ EXCEPT !.result = Ok(None)]]
               /\ UNCHANGED <<_user_cache, born>>
    /\ pc' = [pc EXCEPT ![p] = "done"]
    /\ UNCHANGED <<coreVars, provVars, nameVars, projState, typeState, fieldState, now, ticks, level, cleared, ncalls,
                   _user_last_loaded, _user_lock>>

\* query_users raises: the exception is logged and None is returned.
GetUserNameFailed(p) ==
    /\ pc[p] = "query" /\ call[p].op = "get_user_name"
    /\ pc' = [pc EXCEPT ![p] = "done"]
    /\ call' = [call EXCEPT ![p] = [@ EXCEPT !.result = Ok(None)]]
    /\ UNCHANGED <<coreVars, provVars, nameVars, projState, typeState, fieldState, userState,
                   now, ticks, level, cleared, ncalls, born>>

\* The user_keys lists batch_get_user_names is called with.
KeyBatches == {<<>>, <<"7001">>, <<"7001", "9999">>, <<"", "9999">>}

RECURSIVE CachedNames(_, _, _)
\* batch_get_user_names' scan: result[key] = the first name cached for key.
CachedNames(result, cache, user_keys) ==
    IF user_keys = <<>> THEN result
    ELSE LET key == Head(user_keys)
         IN CachedNames(IF Truthy(key) /\ HasNameFor(cache, key)
                        THEN DictPut(result, key, FirstNameFor(cache, key)) ELSE result,
                        cache, Tail(user_keys))

\* Every key is asked from the remote, cached or not.
NeedsQueryAlways(cache, key) == TRUE
\* "if not found": a key no cached name maps to has to be asked.
NeedsQuery(cache, key) == ~HasNameFor(cache, key)
\* keys_to_query: the non-empty keys of the list that have to be asked.
KeysToQuery(cache, user_keys) ==
    SelectSeq(user_keys, LAMBDA key : Truthy(key) /\ NeedsQuery(cache, key))

\* What query_users(user_keys=keys) may answer: the users it knows among
\* them, or, besides, a record without a name for each key it does not know.
BatchAnswers(keys) ==
    {SelectSeq([i \in DOMAIN keys |->
                  IF query_users(keys[i]) # <<>> THEN query_users(keys[i])[1]
                  ELSE [user_key |-> keys[i], name |-> "", email |-> ""]],
               LAMBDA user : named => Truthy(user.name)) : named \in BOOLEAN}

RECURSIVE BatchFill(_, _)
\* "for user in users: if key and name: d[...] = ...": as result[key] = name
\* on the pairs (key, name), as self._user_cache[name] = key on (name, key).
BatchFill(d, pairs) ==
    IF pairs = <<>> THEN d
    ELSE BatchFill(IF Truthy(Head(pairs)[1]) /\ Truthy(Head(pairs)[2])
                   THEN DictPut(d, Head(pairs)[1], Head(pairs)[2]) ELSE d,
                   Tail(pairs))

\* batch_get_user_names is called: the cache is scanned for every key (no
\* lock, no look at the timestamp); if keys remain, one query_users request
\* is sent for all of them.
BatchGetUserNames(p) ==
    /\ level = "user" /\ pc[p] = "idle" /\ ncalls < MaxCalls
    /\ ncalls' = ncalls + 1
    /\ \E user_keys \in KeyBatches :
         LET result == CachedNames(EmptyDict, _user_cache, user_keys)
             keys_to_query == KeysToQuery(_user_cache, user_keys)
             c == [NewCall("batch_get_user_names", None, Ok(result), "none")
                     EXCEPT !.arg = user_keys, !.result = Ok(result)]
         IN IF keys_to_query = <<>>
            THEN /\ pc' = [pc EXCEPT ![p] = "done"]
                 /\ call' = [call EXCEPT ![p] = c]
            ELSE /\ pc' = [pc EXCEPT ![p] = "batch"]
                 /\ call' = [call EXCEPT ![p] =
                               [c EXCEPT !.pending = keys_to_query, !.fetches = @ + 1]]
    /\ UNCHANGED <<coreVars, provVars, nameVars, projState, typeState, fieldState, userState,
                   now, ticks, level, cleared, born>>

\* query_users answers the batch: every user with a key and a name goes into
\* the result and into the cache (the timestamp is not touched).
BatchGetUserNamesQueried(p) ==
    /\ pc[p] = "batch" /\ call[p].op = "batch_get_user_names"
    /\ \E users \in BatchAnswers(call[p].pending) :
         LET by_key == [i \in DOMAIN users |-> <<users[i].user_key, users[i].name>>]
             by_name == [i \in DOMAIN users |-> <<users[i].name, users[i].user_key>>]
             cached == BatchFill(EmptyDict, by_name)
         IN /\ _user_cache' = BatchFill(_user_cache, by_name)
            /\ born' = [born EXCEPT !["user"] = Stamp(@, DictKeyList(cached), now)]
            /\ call' = [call EXCEPT ![p] =
                          [@ EXCEPT !.answer = users,
                                    !.result = Ok(BatchFill(@.val, by_key))]]
    /\ pc' = [pc EXCEPT ![p] = "done"]
    /\ UNCHANGED <<coreVars, provVars, nameVars, projState, typeState, fieldState, now, ticks, level, cleared, ncalls,
                   _user_last_loaded, _user_lock>>

\* query_users raises: the exception is logged and the names found in the
\* cache are returned.
BatchGetUserNamesFailed(p) ==
    /\ pc[p] = "batch" /\ call[p].op = "batch_get_user_names"
    /\ pc' = [pc EXCEPT ![p] = "done"]
    /\ UNCHANGED <<coreVars, provVars, nameVars, projState, typeState, fieldState, userState,
                   now, ticks, level, cleared, ncalls, call, born>>

\* ---- WorkItemProvider: the user-name and work-item-name caches

\* SimpleCache(ttl=600) for users, SimpleCache(ttl=300) for work items.
USER_NAME_TTL == 600
WORK_ITEM_NAME_TTL == 300
\* The value cached for an id that was looked for and not found.
_NOT_FOUND_MARKER == "__NOT_FOUND__"

\* SimpleCache.set: the value is kept with the time it was stored at.
SimpleCacheSet(cache, key, value, t) == DictPut(cache, key, [value |-> value, at |-> t])
\* SimpleCache.get: the value while it is younger than the ttl, None otherwise.
SimpleCacheGet(cache, ttl, key, t) ==
    IF DictHas(cache, key) /\ t - DictGet(cache, key).at < ttl
    THEN DictGet(cache, key).value
    ELSE None

RECURSIVE SimpleCacheSetAll(_, _, _)
\* cache.set(key, value) for the pairs (key, value) of a list, in order.
SimpleCacheSetAll(cache, pairs, t) ==
    IF pairs = <<>> THEN cache
    ELSE SimpleCacheSetAll(SimpleCacheSet(cache, Head(pairs)[1], Head(pairs)[2], t),
                           Tail(pairs), t)

RECURSIVE PutAll(_, _)
\* d[key] = value for the pairs (key, value) of a list, in order.
PutAll(d, pairs) ==
    IF pairs = <<>> THEN d
    ELSE PutAll(DictPut(d, Head(pairs)[1], Head(pairs)[2]), Tail(pairs))

\* The elements of a list.
Elements(list) == {list[i] : i \in DOMAIN list}

\* The users and the related work items a work item refers to.
NameUserKeys == {<<>>, <<"7001", "9999">>}
RelatedIds == {<<>>, <<101, 102>>}

\* What query_users knows of a user: "7001" has both names, any other key
\* is either left out of the answer or answered without a name.
ProviderUserAnswers(keys) ==
    {SelectSeq([i \in DOMAIN keys |->
                  IF keys[i] = "7001"
                  THEN [user_key |-> "7001", name_cn |-> "Zhang San", name_en |-> "zhangsan"]
                  ELSE [user_key |-> keys[i], name_cn |-> None, name_en |-> ""]],
               LAMBDA user : named => Truthy(user.name_en)) : named \in BOOLEAN}

\* user.get("name_cn") or user.get("name_en") or user_key
UserDisplayName(user) ==
    IF Truthy(user.name_cn) THEN user.name_cn
    ELSE IF Truthy(user.name_en) THEN user.name_en
    ELSE user.user_key

\* What WorkItemAPI.query(project, type, ids) answers: the items of that
\* type among the ids, whichever they are; item 102 has no name.
ItemAnswers(ids) ==
    {SelectSeq([i \in DOMAIN ids |->
                  [id |-> ids[i], name |-> IF ids[i] = 101 THEN "Login page" ELSE None]],
               LAMBDA item : item.id \in S) : S \in SUBSET Elements(ids)}

\* item.get("name") or ""
ItemName(item) == IF Truthy(item.name) THEN item.name ELSE ""

\* The work of a call of _enhance_work_item_with_readable_names on the names.
EnhanceResult(user_map, work_item_map, not_found_ids) ==
    [user_map |-> user_map, work_item_map |-> work_item_map, not_found_ids |-> not_found_ids]
\* The requests it has sent: users asked, ids asked of the item's own type,
\* ids asked of the other types.
EnhanceRequests(users, items, other) == [users |-> users, items |-> items, other |-> other]

\* How the last query for a key ended, with its time.
QueryEnded(seen, keys, outcomeOf(_), t) ==
    PutAll(seen, [i \in DOMAIN keys |-> <<keys[i], [outcome |-> outcomeOf(keys[i]), at |-> t]>>])

\* _get_work_items_with_cache up to its await: ids with a cached name go into
\* the map, ids cached as not found are skipped, the others are to be fetched.
\* With nothing to fetch the call is over.
WorkItemsScan(p, c) ==
    LET work_item_ids == c.arg.work_item_ids
        cached(id) == SimpleCacheGet(_work_item_cache, WORK_ITEM_NAME_TTL, ToString(id), now)
        named == SelectSeq(work_item_ids,
                           LAMBDA id : cached(id) # None /\ cached(id) # _NOT_FOUND_MARKER)
        work_item_map == PutAll(EmptyDict, [i \in DOMAIN named |-> <<named[i], cached(named[i])>>])
        items_to_fetch == SelectSeq(work_item_ids, LAMBDA id : cached(id) = None)
        c1 == [c EXCEPT !.result = Ok([@.val EXCEPT !.work_item_map = work_item_map]),
                        !.pending = [@ EXCEPT !.items = items_to_fetch],
                        !.fetches = IF items_to_fetch = <<>> THEN @ ELSE @ + 1]
    IN /\ pc' = [pc EXCEPT ![p] = IF items_to_fetch = <<>> THEN "done" ELSE "items"]
       /\ call' = [call EXCEPT ![p] = c1]

\* _enhance_work_item_with_readable_names is called for a work item: the
\* users it names are looked up through the user cache
\* (_get_users_with_cache up to its await), and, if none has to be fetched,
\* the related work items through the work-item cache.
EnhanceNames(p) ==
    /\ level = "names" /\ pc[p] = "idle" /\ ncalls < MaxCalls
    /\ ncalls' = ncalls + 1
    /\ \E user_keys \in NameUserKeys, work_item_ids \in RelatedIds :
         LET cached(key) == SimpleCacheGet(p_user_cache, USER_NAME_TTL, key, now)
             hits == SelectSeq(user_keys, LAMBDA key : cached(key) # None)
             user_map == PutAll(EmptyDict, [i \in DOMAIN hits |-> <<hits[i], cached(hits[i])>>])
             users_to_fetch == SelectSeq(user_keys, LAMBDA key : cached(key) = None)
             c == [NewCall("enhance_names", None, Ok(lastQuery), "none")
                     EXCEPT !.arg = [user_keys |-> user_keys, work_item_ids |-> work_item_ids],
                            !.loadedAt = At(now),
                            !.pending = EnhanceRequests(users_to_fetch, <<>>, <<>>),
                            !.result = Ok(EnhanceResult(user_map, EmptyDict, <<>>))]
         IN IF users_to_fetch # <<>>
            THEN /\ pc' = [pc EXCEPT ![p] = "users"]
                 /\ call' = [call EXCEPT ![p] = [c EXCEPT !.fetches = @ + 1]]
            ELSE WorkItemsScan(p, c)
    /\ UNCHANGED <<coreVars, provVars, nameVars, projState, typeState, fieldState, userState,
                   now, ticks, level, cleared, born>>

\* query_users answers: every user returned goes into the map and into the
\* cache under its key; nothing is stored for a key the answer lacks. The
\* related work items come next.
UsersQueried(p) ==
    /\ pc[p] = "users" /\ call[p].op = "enhance_names"
    /\ \E users \in ProviderUserAnswers(call[p].pending.users) :
         LET named == SelectSeq(users, LAMBDA user : Truthy(user.user_key))
             pairs == [i \in DOMAIN named |-> <<named[i].user_key, UserDisplayName(named[i])>>]
             returned(key) == IF \E i \in DOMAIN users : users[i].user_key = key
                              THEN "returned" ELSE "missed"
             c == [call[p] EXCEPT !.answer = users,
                                  !.result = Ok([@.val EXCEPT !.user_map = PutAll(@, pairs)])]
         IN /\ p_user_cache' = SimpleCacheSetAll(p_user_cache, pairs, now)
            /\ lastQuery' = QueryEnded(lastQuery, call[p].pending.users, returned, now)
            /\ WorkItemsScan(p, c)
    /\ UNCHANGED <<coreVars, provVars, _work_item_cache, projState, typeState, fieldState, userState,
                   now, ticks, level, cleared, ncalls, born>>

\* query_users raises: every key asked stands for its own name in the map,
\* and nothing is cached.
UsersQueryFailed(p) ==
    /\ pc[p] = "users" /\ call[p].op = "enhance_names"
    /\ LET asked == call[p].pending.users
           raised(key) == "raised"
           c == [call[p] EXCEPT
                   !.result = Ok([@.val EXCEPT !.user_map =
                                    PutAll(@, [i \in DOMAIN asked |-> <<asked[i], asked[i]>>])])]
       IN /\ lastQuery' = QueryEnded(lastQuery, asked, raised, now)
          /\ WorkItemsScan(p, c)
    /\ UNCHANGED <<coreVars, provVars, p_user_cache, _work_item_cache, projState, typeState, fieldState,
                   userState, now, ticks, level, cleared, ncalls, born>>

\* The query of the item's own type answers: the items returned are cached
\* by name, the ids asked and not returned are cached as not found and go on
\* to the search in the other types.
WorkItemsQueried(p) ==
    /\ pc[p] = "items" /\ call[p].op = "enhance_names"
    /\ \E items \in ItemAnswers(call[p].pending.items) :
         LET items_to_fetch == call[p].pending.items
             with_id == SelectSeq(items, LAMBDA item : item.id # 0)
             found_ids == {with_id[i].id : i \in DOMAIN with_id}
             not_found_ids == SelectSeq(items_to_fetch, LAMBDA id : id \notin found_ids)
             cache1 == SimpleCacheSetAll(_work_item_cache,
                           [i \in DOMAIN with_id |->
                              <<ToString(with_id[i].id), ItemName(with_id[i])>>], now)
             found(key) == IF \E id \in found_ids : ToString(id) = key
                           THEN "returned" ELSE "missed"
         IN /\ _work_item_cache' =
                  SimpleCacheSetAll(cache1,
                      [i \in DOMAIN not_found_ids |->
                         <<ToString(not_found_ids[i]), _NOT_FOUND_MARKER>>], now)
            /\ lastQuery' = QueryEnded(lastQuery,
                                     [i \in DOMAIN items_to_fetch |-> ToString(items_to_fetch[i])],
                                     found, now)
            /\ call' = [call EXCEPT ![p] =
                  [@ EXCEPT !.result = Ok([@.val EXCEPT
                                !.work_item_map =
                                    PutAll(@, [i \in DOMAIN with_id |->
                                                 <<with_id[i].id, ItemName(with_id[i])>>]),
                                !.not_found_ids = not_found_ids])]]
            /\ pc' = [pc EXCEPT ![p] = IF not_found_ids = <<>> THEN "done" ELSE "cross"]
    /\ UNCHANGED <<coreVars, provVars, p_user_cache, projState, typeState, fieldState, userState,
                   now, ticks, level, cleared, ncalls, born>>

\* The query of the item's own type raises: every id asked counts as not
\* found, nothing is cached, and the ids go on to the search in the other
\* types.
WorkItemsQueryFailed(p) ==
    /\ pc[p] = "items" /\ call[p].op = "enhance_names"
    /\ LET items_to_fetch == call[p].pending.items
           raised(key) == "raised"
       IN /\ lastQuery' = QueryEnded(lastQuery,
                                   [i \in DOMAIN items_to_fetch |-> ToString(items_to_fetch[i])],
                                   raised, now)
          /\ call' = [call EXCEPT ![p] =
                [@ EXCEPT !.result = Ok([@.val EXCEPT !.not_found_ids = items_to_fetch])]]
    /\ pc' = [pc EXCEPT ![p] = "cross"]
    /\ UNCHANGED <<coreVars, provVars, p_user_cache, _work_item_cache, projState, typeState, fieldState,
                   userState, now, ticks, level, cleared, ncalls, born>>

\* The ids not found are looked for in the other types of the project. With
\* no other type (or list_types raising) nothing more happens. Otherwise the
\* other types are asked through _try_fetch_type, which answers [] when its
\* query raises: every item one of them returns is cached by name, and every
\* id none of them returned is cached as not found.
CrossTypeSearched(p) ==
    /\ pc[p] = "cross" /\ call[p].op = "enhance_names"
    /\ LET remaining_ids == call[p].result.val.not_found_ids
       IN \E target_types \in BOOLEAN :
            IF ~target_types
            THEN UNCHANGED <<_work_item_cache, call>>
            ELSE \E items \in ItemAnswers(remaining_ids) :
                   LET with_id == SelectSeq(items, LAMBDA item : item.id # 0)
                       still == SelectSeq(remaining_ids,
                                    LAMBDA id : \A i \in DOMAIN with_id : with_id[i].id # id)
                       cache1 == SimpleCacheSetAll(_work_item_cache,
                                     [i \in DOMAIN with_id |->
                                        <<ToString(with_id[i].id), ItemName(with_id[i])>>], now)
                   IN /\ _work_item_cache' =
                            SimpleCacheSetAll(cache1,
                                [i \in DOMAIN still |->
                                   <<ToString(still[i]), _NOT_FOUND_MARKER>>], now)
                      /\ call' = [call EXCEPT ![p] =
                            [@ EXCEPT !.pending = [@ EXCEPT !.other = remaining_ids],
                                      !.result = Ok([@.val EXCEPT !.work_item_map =
                                          PutAll(@, [i \in DOMAIN with_id |->
                                                <<with_id[i].id, ItemName(with_id[i])>>])])]]
    /\ pc' = [pc EXCEPT ![p] = "done"]
    /\ UNCHANGED <<coreVars, provVars, p_user_cache, lastQuery, projState, typeState, fieldState,
                   userState, now, ticks, level, cleared, ncalls, born>>

\* Time passes between two work items: a second, or the lifetime of the
\* work-item cache (half the lifetime of the user cache).
NamesTick ==
    /\ level = "names" /\ ticks < MaxTicks
    /\ \A p \in Procs : pc[p] = "idle"
    /\ ticks' = ticks + 1
    /\ \E d \in {1, WORK_ITEM_NAME_TTL} : now' = now + d
    /\ UNCHANGED <<coreVars, provVars, nameVars, projState, typeState, fieldState, userState,
                   level, cleared, ncalls, pc, call, born>>

\* ---- callers and clock

\* The caller takes the result of its call.
Finish(p) ==
    /\ pc[p] = "done"
    /\ pc' = [pc EXCEPT ![p] = "idle"]
    /\ call' = [call EXCEPT ![p] = NoCall]
    /\ UNCHANGED <<coreVars, provVars, nameVars, projState, typeState, fieldState, userState,
                   now, ticks, level, cleared, ncalls, born>>

\* Time passes: one second, or one lifetime of the level's cache.
Tick ==
    /\ level \in Levels /\ ticks < MaxTicks
    /\ ticks' = ticks + 1
    /\ \E d \in {1, LevelTTL(level)} : now' = now + d
    /\ UNCHANGED <<coreVars, provVars, nameVars, projState, typeState, fieldState, userState,
                   level, cleared, ncalls, pc, call, born>>

\* No provider takes part in a run of the manager.
NoProvider ==
    /\ NameCachesEmpty
    /\ remoteFields = <<>>
    /\ project_name = None /\ p_project_key = TheProjectKey
    /\ work_item_type_name = DefaultTypeName /\ p_resolved_type_key = None
    /\ _type_key_lock = FreeLock
    /\ lastOp = NoOp /\ calls = <<>> /\ outcome = None

\* ... and the remote holds nothing of its own: it answers from the
\* listings above.
ProviderIdle == remoteProjects = EmptyDict /\ remoteTypes = <<>> /\ NoProvider

InitMeta ==
    /\ ProviderIdle
    /\ level \in Levels
    /\ Constructed
    /\ NoClient

NextMeta ==
    \/ \E p \in Procs : GetProjectKey(p)
    \/ \E p \in Procs : GetProjectKeyResumed(p)
    \/ \E p \in Procs : GetProjectKeyListed(p)
    \/ \E p \in Procs : GetProjectKeyLoaded(p)
    \/ \E p \in Procs : GetProjectKeyFailed(p)
    \/ \E p \in Procs : GetTypeKey(p)
    \/ \E p \in Procs : GetTypeKeyResumed(p)
    \/ \E p \in Procs : GetTypeKeyLoaded(p)
    \/ \E p \in Procs : GetTypeKeyFailed(p)
    \/ \E p \in Procs : GetFieldKey(p)
    \/ \E p \in Procs : EnsureFieldCacheResumed(p)
    \/ \E p \in Procs : EnsureFieldCacheLoaded(p)
    \/ \E p \in Procs : EnsureFieldCacheFailed(p)
    \/ \E p \in Procs : GetUserKey(p)
    \/ \E p \in Procs : GetUserKeyResumed(p)
    \/ \E p \in Procs : GetUserKeyLoaded(p)
    \/ \E p \in Procs : GetUserKeyFailed(p)
    \/ \E p \in Procs : GetUserName(p)
    \/ \E p \in Procs : GetUserNameQueried(p)
    \/ \E p \in Procs : GetUserNameFailed(p)
    \/ \E p \in Procs : Finish(p)
    \/ Tick

SpecMeta == InitMeta /\ [][NextMeta]_vars

\* ---- the lookups of one level, call after call
\* What a resolver answers depends on the cache it reads and on the remote's
\* answer, not on who else is calling: in these specifications one caller
\* issues the calls of a level in sequence, so the lock is always free.
Caller == 1

\* get_project_key and list_projects.
InitProject ==
    /\ remoteProjects \in {EmptyDict, ManyProjects} /\ remoteTypes = <<>>
    /\ NoProvider
    /\ level = "project"
    /\ Constructed
    /\ NoClient

NextProject ==
    \/ GetProjectKey(Caller)
    \/ GetProjectKeyListed(Caller)
    \/ GetProjectKeyLoaded(Caller)
    \/ GetProjectKeyFailed(Caller)
    \/ ListProjects(Caller)
    \/ ListProjectsListed(Caller)
    \/ ListProjectsLoaded(Caller)
    \/ Finish(Caller)
    \/ Tick

SpecProject == InitProject /\ [][NextProject]_vars

\* get_type_key for one project.
InitType ==
    /\ remoteProjects = EmptyDict /\ remoteTypes \in {<<>>, ManyTypes}
    /\ NoProvider
    /\ level = "type"
    /\ Constructed
    /\ NoClient

NextType ==
    \/ GetTypeKey(Caller)
    \/ GetTypeKeyLoaded(Caller)
    \/ GetTypeKeyFailed(Caller)
    \/ Finish(Caller)
    \/ Tick

SpecType == InitType /\ [][NextType]_vars

\* get_user_key, get_user_name and batch_get_user_names.
InitUser ==
    /\ ProviderIdle
    /\ level = "user"
    /\ Constructed
    /\ NoClient

NextUser ==
    \/ GetUserKey(Caller)
    \/ GetUserKeyLoaded(Caller)
    \/ GetUserKeyFailed(Caller)
    \/ GetUserName(Caller)
    \/ GetUserNameQueried(Caller)
    \/ GetUserNameFailed(Caller)
    \/ BatchGetUserNames(Caller)
    \/ BatchGetUserNamesQueried(Caller)
    \/ BatchGetUserNamesFailed(Caller)
    \/ Finish(Caller)
    \/ Tick

SpecUser == InitUser /\ [][NextUser]_vars

\* The provider's name lookups for one work item after the other.
InitNames ==
    /\ remoteProjects = EmptyDict /\ remoteTypes = <<>> /\ NoProvider
    /\ level = "names"
    /\ Constructed
    /\ NoClient

NextNames ==
    \/ EnhanceNames(Caller)
    \/ UsersQueried(Caller)
    \/ UsersQueryFailed(Caller)
    \/ WorkItemsQueried(Caller)
    \/ WorkItemsQueryFailed(Caller)
    \/ CrossTypeSearched(Caller)
    \/ Finish(Caller)
    \/ NamesTick

SpecNames == InitNames /\ [][NextNames]_vars

\* get_field_key, get_option_value and list_options of one scope.
InitField ==
    /\ ProviderIdle
    /\ level = "field"
    /\ Constructed
    /\ NoClient

NextField ==
    \/ GetFieldKey(Caller)
    \/ GetOptionValue(Caller)
    \/ ListOptions(Caller)
    \/ EnsureFieldCacheLoaded(Caller)
    \/ EnsureFieldCacheFailed(Caller)
    \/ Finish(Caller)
    \/ Tick

SpecField == InitField /\ [][NextField]_vars

\* ------------------------------------------------------------------ the field scope's fan-out (SpecFanOut)

\* One caller calls the six resolvers of one (project, type) scope, one
\* call after the other, while time passes.
InitFanOut ==
    /\ ProviderIdle
    /\ level = "field"
    /\ Constructed
    /\ NoClient

NextFanOut ==
    \/ GetFieldKey(Caller)
    \/ ListFields(Caller)
    \/ GetOptionValue(Caller)
    \/ ListOptions(Caller)
    \/ GetRoleKey(Caller)
    \/ GetRoleName(Caller)
    \/ EnsureFieldCacheLoaded(Caller)
    \/ EnsureFieldCacheFailed(Caller)
    \/ Finish(Caller)
    \/ Tick

SpecFanOut == InitFanOut /\ [][NextFanOut]_vars

\* ------------------------------------------------------------------ a scope among others (SpecScopes)

\* One caller works on the scope of one level of a manager that has loaded,
\* at time 0, the scopes next to it: another project's types, another type's
\* and another project's fields, and the scopes of the other levels.
OtherProject == "project_other"
OtherType == "type_other"
LoadedTypes == <<[k |-> DefaultTypeName, v |-> "type_other_issue"]>>
LoadedFields == <<[k |-> "priority", v |-> "field_priority"]>>
LoadedOptions == <<[k |-> "field_priority", v |-> <<[k |-> "P0", v |-> "opt_P0"]>>]>>
LoadedRoles == <<[k |-> "assignee_cn", v |-> "role_a06e00"]>>
\* The (project, type) scopes loaded before: all but the one in use.
LoadedBefore(lv, loaded) ==
    LET next == Dict2Put(Dict2Put(EmptyDict, FieldScopeProject, OtherType, loaded),
                         OtherProject, FieldScopeType, loaded)
    IN IF lv = "field" THEN next
       ELSE Dict2Put(next, FieldScopeProject, FieldScopeType, loaded)
\* The projects' type scopes loaded before: all but the one in use.
TypesLoadedBefore(lv, loaded) ==
    IF lv = "type" THEN DictPut(EmptyDict, OtherProject, loaded)
    ELSE DictPut(DictPut(EmptyDict, TypeScope, loaded), OtherProject, loaded)

InitScopes ==
    /\ ProviderIdle /\ NoClient
    /\ level \in {"project", "type", "field"}
    /\ _project_cache = IF level = "project" THEN EmptyDict
                        ELSE DictPut(EmptyDict, TheProjectName, TheProjectKey)
    /\ _project_last_loaded = IF level = "project" THEN Never ELSE At(0)
    /\ _type_cache = TypesLoadedBefore(level, LoadedTypes)
    /\ _type_last_loaded = TypesLoadedBefore(level, At(0))
    /\ _field_cache = LoadedBefore(level, LoadedFields)
    /\ _option_cache = LoadedBefore(level, LoadedOptions)
    /\ _role_cache = LoadedBefore(level, LoadedRoles)
    /\ _field_last_loaded = LoadedBefore(level, At(0))
    /\ _user_cache = EmptyDict /\ _user_last_loaded = Never
    /\ _project_lock = FreeLock /\ _type_lock = FreeLock
    /\ _cache_lock = FreeLock /\ _user_lock = FreeLock
    /\ now = 0 /\ ticks = 0 /\ ncalls = 0
    /\ pc = [p \in Procs |-> "idle"]
    /\ call = [p \in Procs |-> NoCall]
    /\ born = [lv \in Levels |-> EmptyDict]
    /\ cleared = NeverCleared

NextScopes ==
    \/ GetProjectKey(Caller)
    \/ GetProjectKeyListed(Caller)
    \/ GetProjectKeyLoaded(Caller)
    \/ GetProjectKeyFailed(Caller)
    \/ GetTypeKey(Caller)
    \/ GetTypeKeyLoaded(Caller)
    \/ GetTypeKeyFailed(Caller)
    \/ GetFieldKey(Caller)
    \/ GetRoleKey(Caller)
    \/ EnsureFieldCacheLoaded(Caller)
    \/ EnsureFieldCacheFailed(Caller)
    \/ Finish(Caller)
    \/ Tick

SpecScopes == InitScopes /\ [][NextScopes]_vars

\* ------------------------------------------------------------------ the provider's type key among concurrent operations (SpecTypeKey)

\* Every operation of a WorkItemProvider starts with _get_type_key. Here the
\* operations of one provider run as concurrent tasks, next to tasks that
\* call the manager's get_project_key or get_type_key directly (for another
\* provider, say). A manager call made from inside _get_type_key carries the
\* mark below in its record, and goes through the manager's own steps.
FromProvider == "_get_type_key"
ProviderCall == NewCall("_get_type_key", None, NoResult, "none")
\* Task p is inside _get_type_key: queued on its lock, or under it.
InTypeKey(p) ==
    \/ pc[p] = "tk_wait"
    \/ pc[p] # "idle" /\ call[p].arg = FromProvider

\* A memo written whatever the resolution answered.
MemoAfter(result, memo) == IF result.ok THEN result.val ELSE "unresolved"
\* self._resolved_type_key after "self._resolved_type_key = await
\* self.meta.get_type_key(...)": assigned only when the call returned.
ResolvedAfter(result, memo) == IF result.ok THEN result.val ELSE memo

\* _get_type_key leaves its "async with" block with a result or an exception
\* of the manager: the lock is released.
TypeKeyEnds(p, result, via, inner) ==
    /\ pc' = [pc EXCEPT ![p] = "done"]
    /\ call' = [call EXCEPT ![p] =
                  [ProviderCall EXCEPT !.result = result, !.served = via,
                                       !.fetches = inner.fetches,
                                       !.waited = call[p].waited]]

\* await self.meta.get_type_key(project_key, self.work_item_type_name)
MetaGetTypeKey(p) ==
    LET type_name == work_item_type_name
        project_key == TypeScope
        type_map == DictGetOrEmpty(_type_cache, project_key)
        last_loaded == DictGetOrNever(_type_last_loaded, project_key)
        c == [NewCall("get_type_key", type_name, Held(type_map, type_name),
                      AgeClass(DictGetOrNever(born["type"], type_name), TYPE_TTL, now))
                EXCEPT !.arg = FromProvider]
    IN IF /\ DictHas(_type_cache, project_key)
          /\ DictHas(type_map, type_name)
          /\ ~_is_cache_expired(last_loaded, TYPE_TTL, now)
       THEN /\ pc' = [pc EXCEPT ![p] = "done"]
            /\ call' = [call EXCEPT ![p] =
                          ServedFromCache(c, Ok(DictGet(type_map, type_name)),
                                          DictGetOrNever(born["type"], type_name), TYPE_TTL)]
            /\ UNCHANGED <<typeState, born>>
       ELSE IF CanAcquire(_type_lock)
            THEN GetTypeKeyLocked(p, c, _type_lock)
            ELSE /\ pc' = [pc EXCEPT ![p] = "wait"]
                 /\ call' = [call EXCEPT ![p] = [c EXCEPT !.waited = TRUE]]
                 /\ _type_lock' = Enqueue(_type_lock, p)
                 /\ UNCHANGED <<_type_cache, _type_last_loaded, born>>

\* await self.meta.get_project_key(self.project_name)
MetaGetProjectKey(p) ==
    LET name == project_name
        c == [NewCall("get_project_key", name, Held(_project_cache, name),
                      AgeClass(DictGetOrNever(born["project"], name), PROJECT_TTL, now))
                EXCEPT !.arg = FromProvider]
    IN IF /\ DictHas(_project_cache, name)
          /\ ~_is_cache_expired(_project_last_loaded, PROJECT_TTL, now)
       THEN /\ pc' = [pc EXCEPT ![p] = "done"]
            /\ call' = [call EXCEPT ![p] =
                          ServedFromCache(c, Ok(DictGet(_project_cache, name)),
                                          DictGetOrNever(born["project"], name), PROJECT_TTL)]
            /\ UNCHANGED <<projState, born>>
       ELSE IF CanAcquire(_project_lock)
            THEN GetProjectKeyLocked(p, c, _project_lock)
            ELSE /\ pc' = [pc EXCEPT ![p] = "wait"]
                 /\ call' = [call EXCEPT ![p] = [c EXCEPT !.waited = TRUE]]
                 /\ _project_lock' = Enqueue(_project_lock, p)
                 /\ UNCHANGED <<_project_cache, _project_last_loaded, born>>

\* The body of "async with self._type_key_lock:" up to its first await: the
\* memo is returned if there is one; otherwise the project key is taken from
\* the instance or asked from the manager, then the type key is asked.
TypeKeyLocked(p, lock) ==
    IF p_resolved_type_key # None
    THEN /\ TypeKeyEnds(p, Ok(p_resolved_type_key), "memo", ProviderCall)
         /\ _type_key_lock' = Released(lock)
         /\ UNCHANGED <<projState, typeState, born>>
    ELSE /\ _type_key_lock' = HeldBy(lock, p)
         /\ IF Truthy(p_project_key)
            THEN MetaGetTypeKey(p) /\ UNCHANGED projState
            ELSE MetaGetProjectKey(p) /\ UNCHANGED typeState

\* An operation of the provider calls _get_type_key.
ProviderGetTypeKey(p) ==
    /\ pc[p] = "idle" /\ ncalls < MaxCalls
    /\ ncalls' = ncalls + 1
    /\ IF CanAcquire(_type_key_lock)
       THEN TypeKeyLocked(p, _type_key_lock)
       ELSE /\ pc' = [pc EXCEPT ![p] = "tk_wait"]
            /\ call' = [call EXCEPT ![p] = [ProviderCall EXCEPT !.waited = TRUE]]
            /\ _type_key_lock' = Enqueue(_type_key_lock, p)
            /\ UNCHANGED <<projState, typeState, born>>
    /\ UNCHANGED <<coreVars, nameVars, fieldState, userState, now, ticks, level, cleared,
                   remoteProjects, remoteTypes, remoteFields, project_name, p_project_key,
                   work_item_type_name, p_resolved_type_key, lastOp, calls, outcome>>

\* The provider's lock is handed to the first queued operation.
ProviderTypeKeyResumed(p) ==
    /\ pc[p] = "tk_wait"
    /\ MayResume(_type_key_lock, p)
    /\ TypeKeyLocked(p, Dequeued(_type_key_lock))
    /\ UNCHANGED <<coreVars, nameVars, fieldState, userState, now, ticks, level, cleared, ncalls,
                   remoteProjects, remoteTypes, remoteFields, project_name, p_project_key,
                   work_item_type_name, p_resolved_type_key, lastOp, calls, outcome>>

\* meta.get_project_key returned to _get_project_key: the key is kept in the
\* instance and the type key asked; or it raised, and the exception leaves
\* _get_type_key.
ProjectKeyReturned(p) ==
    /\ pc[p] = "done" /\ call[p].op = "get_project_key" /\ call[p].arg = FromProvider
    /\ IF call[p].result.ok
       THEN /\ p_project_key' = call[p].result.val
            /\ MetaGetTypeKey(p)
            /\ UNCHANGED _type_key_lock
       ELSE /\ TypeKeyEnds(p, call[p].result, "meta", call[p])
            /\ _type_key_lock' = Released(_type_key_lock)
            /\ UNCHANGED <<p_project_key, typeState, born>>
    /\ UNCHANGED <<coreVars, nameVars, projState, fieldState, userState, now, ticks, level, cleared,
                   ncalls, remoteProjects, remoteTypes, remoteFields, project_name,
                   work_item_type_name, p_resolved_type_key, lastOp, calls, outcome>>

\* meta.get_type_key returned: the key is memoized and returned. Or it
\* raised: a missing type and a failing remote raise Exception, which
\* "except (ValueError, KeyError)" does not catch, so the exception leaves
\* _get_type_key with the memo as it was.
TypeKeyReturned(p) ==
    /\ pc[p] = "done" /\ call[p].op = "get_type_key" /\ call[p].arg = FromProvider
    /\ p_resolved_type_key' = ResolvedAfter(call[p].result, p_resolved_type_key)
    /\ TypeKeyEnds(p, call[p].result, "meta", call[p])
    /\ _type_key_lock' = Released(_type_key_lock)
    /\ UNCHANGED <<coreVars, nameVars, projState, typeState, fieldState, userState, now, ticks,
                   level, cleared, ncalls, born, remoteProjects, remoteTypes, remoteFields,
                   project_name, p_project_key, work_item_type_name, lastOp, calls, outcome>>

\* The task takes the result of its call, a call of the manager from inside
\* _get_type_key excepted: that one returns to the provider.
CallReturns(p) == call[p].arg # FromProvider /\ Finish(p)

\* The other tasks ask the manager for what the provider asks it (its
\* project, its type), or for a field or a user; the remote answers with that
\* entry alone, with none, or fails.
DirectGetProjectKey(p) == GetProjectKey(p) /\ call'[p].name = TheProjectName
DirectGetTypeKey(p) == GetTypeKey(p) /\ call'[p].name = DefaultTypeName
DirectGetFieldKey(p) == GetFieldKey(p) /\ call'[p].name = "priority"
DirectGetUserKey(p) == GetUserKey(p) /\ call'[p].name = "zhang san"
ProjectsAnswered(p) ==
    /\ GetProjectKeyLoaded(p)
    /\ _project_cache' \in {EmptyDict, DictPut(EmptyDict, TheProjectName, TheProjectKey)}
TypesAnswered(p) ==
    /\ GetTypeKeyLoaded(p)
    /\ \E n \in {DefaultTypeName, ExplicitTypeName} :
          DictGet(_type_cache', TypeScope) \in {EmptyDict, TypeMapFill(EmptyDict, <<TypeRecord(n)>>)}

InitTypeKey ==
    /\ remoteProjects = EmptyDict /\ remoteTypes = <<>> /\ remoteFields = <<>>
    /\ NameCachesEmpty
    /\ \/ project_name = None /\ p_project_key = TheProjectKey
       \/ project_name = TheProjectName /\ p_project_key = None
    /\ work_item_type_name \in {DefaultTypeName, ExplicitTypeName}
    /\ p_resolved_type_key = None
    /\ _type_key_lock = FreeLock
    /\ lastOp = NoOp /\ calls = <<>> /\ outcome = None
    /\ level \in Levels
    /\ Constructed
    /\ NoClient

\* The clock stands still: no load expires during a run.
NextTypeKey ==
    \/ \E p \in Procs : ProviderGetTypeKey(p)
    \/ \E p \in Procs : ProviderTypeKeyResumed(p)
    \/ \E p \in Procs : ProjectKeyReturned(p)
    \/ \E p \in Procs : TypeKeyReturned(p)
    \/ \E p \in Procs : DirectGetProjectKey(p)
    \/ \E p \in Procs : GetProjectKeyResumed(p)
    \/ \E p \in Procs : GetProjectKeyListed(p)
    \/ \E p \in Procs : ProjectsAnswered(p)
    \/ \E p \in Procs : GetProjectKeyFailed(p)
    \/ \E p \in Procs : DirectGetTypeKey(p)
    \/ \E p \in Procs : GetTypeKeyResumed(p)
    \/ \E p \in Procs : TypesAnswered(p)
    \/ \E p \in Procs : GetTypeKeyFailed(p)
    \/ \E p \in Procs : DirectGetFieldKey(p)
    \/ \E p \in Procs : EnsureFieldCacheResumed(p)
    \/ \E p \in Procs : EnsureFieldCacheLoaded(p)
    \/ \E p \in Procs : EnsureFieldCacheFailed(p)
    \/ \E p \in Procs : DirectGetUserKey(p)
    \/ \E p \in Procs : GetUserKeyResumed(p)
    \/ \E p \in Procs : GetUserKeyLoaded(p)
    \/ \E p \in Procs : GetUserKeyFailed(p)
    \/ \E p \in Procs : CallReturns(p)

SpecTypeKey == InitTypeKey /\ [][NextTypeKey]_vars

\* The remote answers every call (with a result or an error), and the event
\* loop resumes every task that can run: a task woken by a released lock, a
\* call of the manager returning to the provider.
RemoteAnswers(p) ==
    \/ GetProjectKeyListed(p) \/ ProjectsAnswered(p) \/ GetProjectKeyFailed(p)
    \/ TypesAnswered(p) \/ GetTypeKeyFailed(p)
    \/ EnsureFieldCacheLoaded(p) \/ EnsureFieldCacheFailed(p)
    \/ GetUserKeyLoaded(p) \/ GetUserKeyFailed(p)
TaskResumes(p) ==
    \/ ProviderTypeKeyResumed(p) \/ ProjectKeyReturned(p) \/ TypeKeyReturned(p)
    \/ GetProjectKeyResumed(p) \/ GetTypeKeyResumed(p)
    \/ EnsureFieldCacheResumed(p) \/ GetUserKeyResumed(p)
FairTypeKey ==
    /\ SpecTypeKey
    /\ \A p \in Procs : WF_vars(RemoteAnswers(p))
    /\ \A p \in Procs : WF_vars(TaskResumes(p))

\* ------------------------------------------------------------------ clear_cache (SpecClear)

\* How often a run calls clear_cache.
MaxClears == 2

\* clear_cache: a plain method, it awaits nothing and takes no lock. The six
\* maps are emptied and the four timestamps unset; the locks, and a load that
\* holds one, are left as they are.
ClearCache ==
    /\ level \in Levels /\ cleared.times < MaxClears
    /\ _project_cache' = EmptyDict
    /\ _type_cache' = EmptyDict
    /\ _field_cache' = EmptyDict
    /\ _option_cache' = EmptyDict
    /\ _role_cache' = EmptyDict
    /\ _user_cache' = EmptyDict
    /\ _project_last_loaded' = Never
    /\ _type_last_loaded' = EmptyDict
    /\ _field_last_loaded' = EmptyDict
    /\ _user_last_loaded' = Never
    /\ born' = [lv \in Levels |-> EmptyDict]
    /\ cleared' = [times |-> cleared.times + 1, calls |-> ncalls]
    /\ UNCHANGED <<_project_lock, _type_lock, _cache_lock, _user_lock,
                   now, ticks, level, ncalls, pc, call>>
    /\ UNCHANGED <<coreVars, provVars, nameVars>>

\* get_work_item_types answers a get_type_key whose project entry
\* clear_cache removed while the call awaited: the first assignment
\* self._type_cache[project_key][t_name] raises KeyError; with no type to
\* assign, the timestamp is set and the lookup in
\* self._type_cache[project_key] raises it.
GetTypeKeyLoadedCleared(p) ==
    /\ pc[p] = "load" /\ call[p].op = "get_type_key"
    /\ ~DictHas(_type_cache, TypeScope)
    /\ \E types \in TypeListings \cup TenantTypeListings :
         _type_last_loaded' = IF TypeMapFill(EmptyDict, types) = EmptyDict
                              THEN DictPut(_type_last_loaded, TypeScope, At(now))
                              ELSE _type_last_loaded
    /\ pc' = [pc EXCEPT ![p] = "done"]
    /\ call' = [call EXCEPT ![p] = [@ EXCEPT !.result = Err("KeyError")]]
    /\ _type_lock' = Released(_type_lock)
    /\ UNCHANGED <<coreVars, provVars, nameVars, projState, fieldState, userState,
                   now, ticks, level, cleared, ncalls, _type_cache, born>>

\* get_all_fields answers an _ensure_field_cache whose project entry
\* clear_cache removed while the call awaited: the assignment
\* self._field_cache[project_key][type_key] raises KeyError before anything
\* is stored.
EnsureFieldCacheLoadedCleared(p) ==
    /\ pc[p] = "load" /\ call[p].op \in FieldLevelOps
    /\ ~DictHas(_field_cache, FieldScopeProject)
    /\ pc' = [pc EXCEPT ![p] = "done"]
    /\ call' = [call EXCEPT ![p] = [@ EXCEPT !.result = Err("KeyError")]]
    /\ _cache_lock' = Released(_cache_lock)
    /\ UNCHANGED <<coreVars, provVars, nameVars, projState, typeState, userState,
                   now, ticks, level, cleared, ncalls,
                   _field_cache, _option_cache, _role_cache, _field_last_loaded, born>>

\* Two callers resolve names of one level while clear_cache is called at
\* any moment, also while a load is awaiting its answer. The runs are
\* shorter than any TTL: the clock stands still.
InitClear ==
    /\ ProviderIdle
    /\ level \in Levels
    /\ Constructed
    /\ NoClient

NextClear ==
    \/ ClearCache
    \/ \E p \in Procs : GetProjectKey(p)
    \/ \E p \in Procs : GetProjectKeyResumed(p)
    \/ \E p \in Procs : GetProjectKeyListed(p)
    \/ \E p \in Procs : GetProjectKeyLoaded(p)
    \/ \E p \in Procs : GetProjectKeyFailed(p)
    \/ \E p \in Procs : GetTypeKey(p)
    \/ \E p \in Procs : GetTypeKeyResumed(p)
    \/ \E p \in Procs : DictHas(_type_cache, TypeScope) /\ GetTypeKeyLoaded(p)
    \/ \E p \in Procs : GetTypeKeyLoadedCleared(p)
    \/ \E p \in Procs : GetTypeKeyFailed(p)
    \/ \E p \in Procs : GetFieldKey(p)
    \/ \E p \in Procs : EnsureFieldCacheResumed(p)
    \/ \E p \in Procs : DictHas(_field_cache, FieldScopeProject) /\ EnsureFieldCacheLoaded(p)
    \/ \E p \in Procs : EnsureFieldCacheLoadedCleared(p)
    \/ \E p \in Procs : EnsureFieldCacheFailed(p)
    \/ \E p \in Procs : GetUserKey(p)
    \/ \E p \in Procs : GetUserKeyResumed(p)
    \/ \E p \in Procs : GetUserKeyLoaded(p)
    \/ \E p \in Procs : GetUserKeyFailed(p)
    \/ \E p \in Procs : GetUserName(p)
    \/ \E p \in Procs : GetUserNameQueried(p)
    \/ \E p \in Procs : GetUserNameFailed(p)
    \/ \E p \in Procs : Finish(p)

SpecClear == InitClear /\ [][NextClear]_vars

\* ------------------------------------------------------------------ the generations of a field scope (SpecGenerations)

\* The names the readers of the scope ask for.
ReadFieldName == "priority_cn"
ReadOptionLabel == "P0"
ReadRoleName == "assignee_cn"
\* What get_all_fields answers from one fetch to the next: the scope with
\* and without its role field, and with another value for an option.
GenerationResponses == {<<F_priority>>, <<F_priority, F_role>>, <<F_priority_shifted>>}

\* Concurrent readers of one (project, type) scope, of its field map, its
\* option map and its role map, while time passes, refreshes fail and
\* clear_cache is called at any moment.
InitGenerations ==
    /\ ProviderIdle
    /\ level = "field"
    /\ Constructed
    /\ NoClient

NextGenerations ==
    \/ \E p \in Procs : GetFieldKey(p) /\ call'[p].name = ReadFieldName
    \/ \E p \in Procs : GetOptionValue(p) /\ call'[p].arg = ReadOptionLabel
    \/ \E p \in Procs : GetRoleKey(p) /\ call'[p].name = ReadRoleName
    \/ \E p \in Procs : EnsureFieldCacheResumed(p)
    \/ \E p \in Procs : /\ DictHas(_field_cache, FieldScopeProject)
                         /\ EnsureFieldCacheLoaded(p)
                         /\ call'[p].answer \in GenerationResponses
    \/ \E p \in Procs : EnsureFieldCacheLoadedCleared(p)
    \/ \E p \in Procs : EnsureFieldCacheFailed(p)
    \/ \E p \in Procs : Finish(p)
    \/ ClearCache
    \/ Tick

SpecGenerations == InitGenerations /\ [][NextGenerations]_vars

\* ------------------------------------------------------------------ field extraction (SpecExtract)

\* Field values the remote returns: select options, user lists, strings,
\* numbers, nulls.
FieldValues ==
    {PyOption("P0", "option_1"), PyOption("", "option_2"), PyOption(None, None),
     PyList(<<UserObject("Zhang San", "zhangsan_cn")>>),
     PyList(<<UserObject(None, "lisi_cn"), UserObject("Wang Wu", None)>>),
     PyList(<<StrElement("tag_a")>>), PyList(<<>>),
     PyStr("user_123"), PyStr(""), PyInt(7), PyInt(0), PyNone}

FieldEntry(field_key, field_value) == [field_key |-> field_key, field_value |-> field_value]
FieldEntries ==
    {FieldEntry("priority", v) : v \in FieldValues} \cup {FieldEntry("owner", PyStr("user_456"))}

\* Entries in one list of an item.
MaxEntries == 2
RECURSIVE EntryLists(_)
EntryLists(n) ==
    IF n = 0 THEN {<<>>}
    ELSE EntryLists(n - 1)
         \cup {Append(s, e) : s \in {x \in EntryLists(n - 1) : Len(x) = n - 1}, e \in FieldEntries}

\* Work items in either shape, or both: `fields` (detail view) and
\* `field_value_pairs` (list view).
WorkItems ==
    {[id |-> 12345, fields |-> fs, field_value_pairs |-> ps] :
        fs \in EntryLists(MaxEntries), ps \in EntryLists(1)}

\* An operation of the provider with arguments of its own.
OpWith(op, args) ==
    [op |-> op, issue_id |-> None, name |-> None, priority |-> None,
     description |-> None, status |-> None, assignee |-> None, down |-> {},
     kind |-> None, args |-> args]

\* _extract_field_value is applied to a work item.
ExtractFieldValue ==
    /\ lastOp = NoOp
    /\ \E item \in WorkItems, field_key \in {"priority", "owner", "nonexistent_field"} :
          Ran(OpWith("_extract_field_value", [item |-> item, field_key |-> field_key]),
              Done(Ok(_extract_field_value(item, field_key)), <<>>,
                   p_project_key, p_resolved_type_key))

\* A provider of a known project, at rest.
InitExtract ==
    /\ remoteProjects = EmptyDict /\ remoteTypes = <<>> /\ NoProvider
    /\ level = "none"
    /\ Constructed
    /\ NoClient

NextExtract ==
    \/ ExtractFieldValue
    \/ Return

SpecExtract == InitExtract /\ [][NextExtract]_vars

\* ------------------------------------------------------------------ get_tasks (SpecTasks)

\* Work items as the filter and search endpoints return them.
PlainItem ==
    [id |-> 1, name |-> "login page", field_value_pairs |-> <<>>,
     fields |-> <<FieldEntry("priority", PyOption("P0", "opt_P0")),
                  FieldEntry("owner", PyStr("7001"))>>]
LinkedItem ==
    [id |-> 2, name |-> "login", field_value_pairs |-> <<>>,
     fields |-> <<FieldEntry("priority", PyOption("P1", "opt_P1")),
                  FieldEntry("owner", PyList(<<UserObject("Zhang San", "zhangsan_cn")>>)),
                  FieldEntry("linked_items", PyList(<<IntElement(102), IntElement(101)>>))>>]
ChildItem ==
    [id |-> 3, name |-> "login api", field_value_pairs |-> <<>>,
     fields |-> <<FieldEntry("owner", PyStr("9999")), FieldEntry("parent", PyInt(101))>>]
ListViewItem ==
    [id |-> 4, name |-> "relogin", fields |-> <<>>,
     field_value_pairs |-> <<FieldEntry("priority", PyOption("P0", "opt_P0")),
                             FieldEntry("parent", PyInt(101))>>]

\* What one filter or search_params request answers: a bare list, a dict
\* with work_items and pagination (a dict, or something else), or neither.
TaskResult(shape, items, pagination_is_dict, pagination, has_total, total) ==
    [shape |-> shape, items |-> items, pagination_is_dict |-> pagination_is_dict,
     pagination |-> pagination, has_total |-> has_total, total |-> total]
TaskResults ==
    {TaskResult("list", <<PlainItem, LinkedItem, ChildItem, ListViewItem>>, FALSE, EmptyDict,
                FALSE, 0),
     TaskResult("dict", <<LinkedItem, PlainItem>>, TRUE, <<[k |-> "total", v |-> 7]>>,
                FALSE, 0),
     TaskResult("dict", <<PlainItem>>, FALSE, EmptyDict, TRUE, 9),
     TaskResult("dict", <<>>, TRUE, EmptyDict, FALSE, 0),
     TaskResult("other", <<>>, FALSE, EmptyDict, FALSE, 0)}
NoResultGiven == TaskResult("other", <<>>, FALSE, EmptyDict, FALSE, 0)

\* The pages the scan can meet.
FullPage ==
    [shape |-> "list",
     items |-> [i \in 1..BATCH_SIZE |-> IF i = 1 THEN LinkedItem ELSE PlainItem]]
FullDictPage ==
    [shape |-> "dict",
     items |-> [i \in 1..BATCH_SIZE |-> IF i = BATCH_SIZE THEN ChildItem ELSE PlainItem]]
DoublePage == [shape |-> "list", items |-> [i \in 1..(2 * BATCH_SIZE) |-> PlainItem]]
ShortPage == [shape |-> "list", items |-> <<LinkedItem, ListViewItem>>]
EmptyPage == [shape |-> "dict", items |-> <<>>]
OtherPage == [shape |-> "other", items |-> <<>>]
RaisedPage == [shape |-> "raise", items |-> <<>>]

PageKinds == {"full", "full_dict", "double", "short", "empty", "other", "raise"}
PageOf(k) ==
    CASE k = "full" -> FullPage
      [] k = "full_dict" -> FullDictPage
      [] k = "double" -> DoublePage
      [] k = "short" -> ShortPage
      [] k = "empty" -> EmptyPage
      [] k = "other" -> OtherPage
      [] k = "raise" -> RaisedPage

\* What the remote answers page by page: the same kind on every page, or on
\* every page but one.
PagePattern(base, odd, k) == [base |-> base, odd |-> odd, k |-> k]
PagePatterns ==
    {PagePattern(k, 1, k) : k \in PageKinds}
    \cup {PagePattern("full", 3, "short"), PagePattern("full", 3, "raise"),
          PagePattern("full", 6, "empty"), PagePattern("full", MAX_PAGES, "raise"),
          PagePattern("raise", 3, "full"), PagePattern("raise", 6, "short"),
          PagePattern("raise", MAX_PAGES, "full")}
PagesOf(pattern) ==
    [q \in 1..MAX_PAGES |-> IF q = pattern.odd THEN PageOf(pattern.k)
                            ELSE PageOf(pattern.base)]
NoPattern == PagePattern("raise", 1, "raise")

TaskKeywords == {None, "", "login"}
TaskStatuses == {None, <<"open">>}
TaskPriorities == {None, <<"P0", "P9">>}
TaskOwners == {None, "zhang san", "ghost one"}
TaskRelated == {0, 101}

ScanEndpoints == ResolveEndpoints \cup {"filter"}
TaskEndpoints == ResolveEndpoints \cup {"fields", "users", "filter", "search_params"}

\* get_tasks is called; the scan is answered page by page, the other two
\* strategies by one result.
GetTasks ==
    /\ lastOp = NoOp
    /\ \E name_keyword \in TaskKeywords, status \in TaskStatuses,
          priority \in TaskPriorities, owner \in TaskOwners, related_to \in TaskRelated :
       LET scans == IdGiven(related_to) /\ ~Truthy(name_keyword) /\ ~PySeqTruthy(status)
                    /\ ~PySeqTruthy(priority) /\ ~Truthy(owner)
       IN \E down \in DownSets(IF scans THEN ScanEndpoints ELSE TaskEndpoints) :
          \E kind \in KindsFor(down) :
          \E result \in IF scans THEN {NoResultGiven} ELSE TaskResults,
             pattern \in IF scans THEN PagePatterns ELSE {NoPattern} :
          Ran(OpWith("get_tasks",
                     [name_keyword |-> name_keyword, status |-> status,
                      priority |-> priority, owner |-> owner, related_to |-> related_to,
                      down |-> down, kind |-> kind, result |-> result,
                      pattern |-> pattern]),
              get_tasks(name_keyword, status, priority, owner, related_to, 1, 20,
                        down, kind, result, PagesOf(pattern)))

\* What the filter request of one probe answers.
ProbeResults ==
    {TaskResult("raise", <<>>, FALSE, EmptyDict, FALSE, 0),
     TaskResult("list", <<>>, FALSE, EmptyDict, FALSE, 0),
     TaskResult("list", <<PlainItem, LinkedItem, ChildItem>>, FALSE, EmptyDict, FALSE, 0),
     TaskResult("dict", <<ListViewItem, ChildItem>>, TRUE, <<[k |-> "total", v |-> 2]>>,
                FALSE, 0)}
\* The probed types a project of TaskTypeListings can have.
ProbedTypes == {"requirement management", "task"}
ProbeAnswers ==
    {[s \in {search_types[i] : i \in DOMAIN search_types} |->
        IF s = "requirement management" THEN r1
        ELSE IF s = "task" THEN r2
        ELSE TaskResult("list", <<PlainItem>>, FALSE, EmptyDict, FALSE, 0)] :
     r1 \in ProbeResults, r2 \in ProbeResults}
RelatedArguments == {PyInt(101), PyStr("102"), PyStr("login"), PyStr(""), PyNone}

\* resolve_related_to is called with an id, a numeral or a name.
ResolveRelatedTo ==
    /\ lastOp = NoOp
    /\ \E related_to \in RelatedArguments,
          down \in DownSets(ResolveEndpoints \cup {"filter", "search_params"}) :
       \E kind \in KindsFor(down), results \in ProbeAnswers :
          Ran(OpWith("resolve_related_to",
                     [related_to |-> related_to, down |-> down, kind |-> kind,
                      results |-> results]),
              resolve_related_to(related_to, down, kind, results))

\* Providers of a project whose types and fields vary.
TaskTypeListings ==
    {<<>>, <<TypeRecord(DefaultTypeName)>>,
     <<TypeRecord("requirement management"), TypeRecord("task")>>,
     <<TypeRecord("task"), TypeRecord(DefaultTypeName)>>}
InitTasks ==
    /\ remoteProjects = <<[k |-> TheProjectName, v |-> TheProjectKey]>>
    /\ remoteTypes \in TaskTypeListings
    /\ remoteFields \in {<<F_description>>, <<F_description, F_priority, F_status>>}
    /\ \/ project_name = None /\ p_project_key = TheProjectKey
       \/ project_name = TheProjectName /\ p_project_key = None
    /\ work_item_type_name = DefaultTypeName
    /\ p_resolved_type_key = None
    /\ _type_key_lock = FreeLock
    /\ lastOp = NoOp
    /\ calls = <<>>
    /\ outcome = None
    /\ level = "none"
    /\ Constructed
    /\ NoClient
    /\ NameCachesEmpty

NextTasks ==
    \/ GetTasks
    \/ ResolveRelatedTo
    \/ Return

SpecTasks == InitTasks /\ [][NextTasks]_vars

\* ------------------------------------------------------------------ AuthManager and ProjectAuth (SpecAuth)

\* Lifetime assumed for a token whose response names none, and the margin
\* by which a token is taken to expire early, in seconds.
DEFAULT_EXPIRE == 7200
EXPIRY_BUFFER == 60

\* What POST /open_api/authen/plugin_token answers: an exception (transport
\* error, error status, malformed body), or a body with or without "code",
\* with the token data under "data" or at top level.
AuthReply(raises, has_code, code, nested, plugin_token, has_expire, expire) ==
    [raises |-> raises, has_code |-> has_code, code |-> code, nested |-> nested,
     plugin_token |-> plugin_token, has_expire |-> has_expire, expire |-> expire]
AuthReplies ==
    {AuthReply(TRUE, FALSE, 0, FALSE, None, FALSE, 0),
     AuthReply(FALSE, TRUE, 10022, FALSE, None, FALSE, 0),
     AuthReply(FALSE, TRUE, 0, TRUE, "t1", TRUE, 3600),
     AuthReply(FALSE, FALSE, 0, FALSE, "t2", FALSE, 0),
     AuthReply(FALSE, TRUE, 0, TRUE, "t3", TRUE, 30),
     AuthReply(FALSE, TRUE, 0, TRUE, None, TRUE, 3600),
     AuthReply(FALSE, TRUE, 0, FALSE, "", TRUE, 3600)}

\* get_plugin_token up to its first await: the static token, None without
\* plugin credentials, the cached token while it is valid; otherwise the
\* token has to be fetched.
TokenAtOnce ==
    IF Truthy(settings.FEISHU_PROJECT_USER_TOKEN)
    THEN [ready |-> TRUE, token |-> settings.FEISHU_PROJECT_USER_TOKEN]
    ELSE IF ~Truthy(settings.FEISHU_PROJECT_PLUGIN_ID)
            \/ ~Truthy(settings.FEISHU_PROJECT_PLUGIN_SECRET)
    THEN [ready |-> TRUE, token |-> None]
    ELSE IF Truthy(_plugin_token) /\ now < _expiry_time
    THEN [ready |-> TRUE, token |-> _plugin_token]
    ELSE [ready |-> FALSE, token |-> None]

\* The rest of get_plugin_token once the POST is answered: the new values of
\* _plugin_token and _expiry_time and the token returned.
TokenFetched(reply) ==
    IF reply.raises \/ (reply.has_code /\ reply.code # 0)
    THEN [plugin_token |-> _plugin_token, expiry_time |-> _expiry_time, token |-> None]
    ELSE IF ~Truthy(reply.plugin_token)
    THEN [plugin_token |-> reply.plugin_token, expiry_time |-> _expiry_time,
          token |-> None]
    ELSE LET expires_in == IF reply.has_expire THEN reply.expire ELSE DEFAULT_EXPIRE
         IN [plugin_token |-> reply.plugin_token,
             expiry_time |-> now + expires_in - EXPIRY_BUFFER,
             token |-> reply.plugin_token]

\* async_auth_flow after the token is known: X-PLUGIN-TOKEN is set if there
\* is a token, X-USER-KEY if there is a user key (None: no such header), and
\* the request is yielded.
Headers(token) ==
    [raised |-> "",
     headers |-> [plugin_token |-> IF Truthy(token) THEN token ELSE None,
                  user_key |-> IF Truthy(settings.FEISHU_PROJECT_USER_KEY)
                               THEN settings.FEISHU_PROJECT_USER_KEY ELSE None]]

\* The flow of caller p yields its request with this token.
Yields(p, token, fetched) ==
    LET h == Headers(token)
    IN /\ flow' = [flow EXCEPT ![p].pc = "yielded", ![p].token = token,
                               ![p].fetched = fetched, ![p].raised = h.raised,
                               ![p].startedAt = IF fetched THEN @ ELSE now,
                               ![p].good = IF fetched THEN @ ELSE auth_log.good]
       /\ sent' = IF h.raised = "" THEN Append(sent, h.headers) ELSE sent

AuthFrame ==
    UNCHANGED <<provVars, nameVars, projState, typeState, fieldState, userState,
                level, cleared, pc, call, born, settings, client_request>>

\* async_auth_flow starts for a request: get_plugin_token returns at once,
\* or the token request is sent.
AuthFlowStarts(p) ==
    /\ level = "auth" /\ flow[p].pc = "idle" /\ ncalls < MaxCalls
    /\ ncalls' = ncalls + 1
    /\ IF TokenAtOnce.ready
       THEN /\ Yields(p, TokenAtOnce.token, FALSE)
            /\ UNCHANGED auth_log
       ELSE /\ flow' = [flow EXCEPT ![p].pc = "fetching", ![p].fetched = TRUE,
                                    ![p].startedAt = now, ![p].good = auth_log.good,
                                    ![p].token = None, ![p].raised = ""]
            /\ auth_log' = [auth_log EXCEPT !.posts = @ + 1]
            /\ UNCHANGED sent
    /\ UNCHANGED <<_plugin_token, _expiry_time, now, ticks>>
    /\ AuthFrame

\* The token request of caller p is answered; get_plugin_token returns and
\* the flow goes on.
TokenRequestAnswered(p) ==
    /\ flow[p].pc = "fetching"
    /\ \E reply \in AuthReplies :
          LET r == TokenFetched(reply)
          IN /\ _plugin_token' = r.plugin_token
             /\ _expiry_time' = r.expiry_time
             /\ auth_log' = IF Truthy(r.token)
                            THEN [auth_log EXCEPT !.good =
                                     <<[token |-> reply.plugin_token, at |-> now,
                                        expire |-> IF reply.has_expire THEN reply.expire
                                                   ELSE DEFAULT_EXPIRE]>>]
                            ELSE auth_log
             /\ Yields(p, r.token, TRUE)
    /\ UNCHANGED <<now, ticks, ncalls>>
    /\ AuthFrame

\* The yielded request was sent and answered; the flow is over.
AuthFlowEnds(p) ==
    /\ flow[p].pc = "yielded"
    /\ flow' = [flow EXCEPT ![p] = IdleFlow]
    /\ UNCHANGED <<_plugin_token, _expiry_time, sent, auth_log, now, ticks, ncalls>>
    /\ AuthFrame

\* Time passes: a second, or up to the expiry of a token of either lifetime.
AuthTick ==
    /\ level = "auth" /\ ticks < MaxTicks
    /\ ticks' = ticks + 1
    /\ \E d \in {1, 3539, DEFAULT_EXPIRE - EXPIRY_BUFFER} : now' = now + d
    /\ UNCHANGED <<_plugin_token, _expiry_time, flow, sent, auth_log, ncalls>>
    /\ AuthFrame

AuthSettings ==
    {Settings("static_token", None, None, "user_key_1"),
     Settings(None, None, None, None),
     Settings(None, "pid", None, None),
     Settings("", "pid", "psec", None),
     Settings(None, "pid", "psec", "user_key_1")}

InitAuth ==
    /\ ProviderIdle
    /\ level = "auth"
    /\ Constructed /\ AuthConstructed
    /\ settings \in AuthSettings

NextAuth ==
    \/ \E p \in Procs : AuthFlowStarts(p)
    \/ \E p \in Procs : TokenRequestAnswered(p)
    \/ \E p \in Procs : AuthFlowEnds(p)
    \/ AuthTick

SpecAuth == InitAuth /\ [][NextAuth]_vars

\* ------------------------------------------------------------------ ProjectClient (SpecClient)

\* Retry configuration of ProjectClient.
MAX_RETRIES == 3
RETRY_MIN_WAIT == 1
RETRY_MAX_WAIT == 10

\* What one attempt meets: a response with a status code, or an httpx
\* exception.
ClientReply(status, exc) == [status |-> status, exc |-> exc]
ClientReplies ==
    {ClientReply(s, "") : s \in {200, 400, 404, 499, 500, 503}}
    \cup {ClientReply(0, e) : e \in {"ConnectError", "ReadTimeout", "PoolTimeout", "ReadError"}}

\* The classes an httpx exception is an instance of.
ClassesOf(exc) ==
    CASE exc \in {"ReadTimeout", "WriteTimeout", "ConnectTimeout", "PoolTimeout"} ->
             {exc, "TimeoutException", "TransportError"}
      [] exc \in {"ConnectError", "ReadError"} -> {exc, "NetworkError", "TransportError"}
      [] OTHER -> {exc}
RETRYABLE_EXCEPTIONS ==
    {"ConnectError", "TimeoutException", "ReadTimeout", "WriteTimeout", "ConnectTimeout"}
\* retry_if_exception_type(RETRYABLE_EXCEPTIONS + (RetryableHTTPError,))
RetryIfExceptionType(exc) ==
    ClassesOf(exc) \cap (RETRYABLE_EXCEPTIONS \cup {"RetryableHTTPError"}) # {}

\* A check that also retries client errors.
ShouldRetryClientErrors(status_code) == status_code >= 400
_should_retry_response(status_code) == status_code >= 500

\* A stop condition that allows one attempt more.
StopAfterOneMore(attempt_number) == attempt_number >= MAX_RETRIES + 1
\* stop_after_attempt(self.MAX_RETRIES)
StopAfterAttempt(attempt_number) == attempt_number >= MAX_RETRIES

RECURSIVE Pow2(_)
Pow2(n) == IF n = 0 THEN 1 ELSE 2 * Pow2(n - 1)
\* wait_exponential(multiplier=1, min=RETRY_MIN_WAIT, max=RETRY_MAX_WAIT)
WaitExponential(attempt_number) ==
    LET w == Pow2(attempt_number - 1)
    IN IF w < RETRY_MIN_WAIT THEN RETRY_MIN_WAIT
       ELSE IF w > RETRY_MAX_WAIT THEN RETRY_MAX_WAIT ELSE w

ClientMethods == {"GET", "POST", "PUT", "DELETE", "PATCH"}

ClientFrame ==
    UNCHANGED <<provVars, nameVars, projState, typeState, fieldState, userState,
                level, cleared, pc, call, born, settings, _plugin_token, _expiry_time, flow,
                auth_log, ticks>>

\* get, post, put or delete is called: _request_with_retry begins.
RequestStarts ==
    /\ level = "client" /\ client_request.pc = "idle" /\ ncalls < MaxCalls
    /\ ncalls' = ncalls + 1
    /\ \E method \in ClientMethods :
          client_request' = [NoRequest EXCEPT !.pc = "running", !.method = method]
    /\ UNCHANGED <<sent, now>>
    /\ ClientFrame

\* What _do_request raises for this reply ("": it returns the response).
Raised(method, reply) ==
    IF method \notin {"GET", "POST", "PUT", "DELETE"} THEN "ValueError"
    ELSE IF reply.exc # "" THEN reply.exc
    ELSE IF _should_retry_response(reply.status) THEN "RetryableHTTPError"
    ELSE ""

\* One attempt of _do_request under the retry decorator: the request passes
\* ProjectAuth and is sent, the reply is returned or raised; a retryable
\* exception is followed by the backoff sleep unless the attempts are used
\* up, any other exception and the last retryable one reach the caller.
Attempt ==
    /\ client_request.pc = "running" /\ TokenAtOnce.ready
    /\ \E reply \in ClientReplies :
          LET method == client_request.method
              supported == method \in {"GET", "POST", "PUT", "DELETE"}
              replies == IF supported THEN Append(client_request.replies, reply)
                         ELSE client_request.replies
              attempt_number == Len(client_request.replies) + 1
              exc == Raised(method, reply)
          IN /\ sent' = IF supported THEN Append(sent, Headers(TokenAtOnce.token).headers)
                        ELSE sent
             /\ IF exc = ""
                THEN /\ client_request' =
                          [client_request EXCEPT !.pc = "done", !.replies = replies,
                                                 !.result = [ok |-> TRUE, val |-> reply.status,
                                                             err |-> ""]]
                     /\ now' = now
                ELSE IF RetryIfExceptionType(exc) /\ ~StopAfterAttempt(attempt_number)
                THEN /\ client_request' = [client_request EXCEPT !.replies = replies]
                     /\ now' = now + WaitExponential(attempt_number)
                ELSE /\ client_request' =
                          [client_request EXCEPT !.pc = "done", !.replies = replies,
                                                 !.result = [ok |-> FALSE, val |-> 0,
                                                             err |-> exc]]
                     /\ now' = now
    /\ UNCHANGED ncalls
    /\ ClientFrame

\* The caller has the response or the exception.
ClientReturns ==
    /\ client_request.pc = "done"
    /\ client_request' = NoRequest
    /\ UNCHANGED <<sent, now, ncalls>>
    /\ ClientFrame

InitClient ==
    /\ ProviderIdle
    /\ level = "client"
    /\ Constructed /\ AuthConstructed
    /\ settings \in {Settings("static_token", None, None, "user_key_1"),
                     Settings(None, None, None, None)}

NextClient ==
    \/ RequestStarts
    \/ Attempt
    \/ ClientReturns

SpecClient == InitClient /\ [][NextClient]_vars

\* ------------------------------------------------------------------ claims on the provider (SpecProvider)

\* The requests of the operation that just ran, by endpoint.
CallIndices(api) == {i \in DOMAIN calls : calls[i].api = api}
\* The project and type resolution of the operation met no failing endpoint.
ResolutionUp == lastOp.down \cap ResolveEndpoints = {}
\* The remote's field list holds field f.
RemoteHasField(f) == \E i \in DOMAIN remoteFields : remoteFields[i] = f
RemoteTypeNames == {remoteTypes[i].name : i \in DOMAIN remoteTypes}
\* The project key is given, or its name is one the remote lists.
ProjectResolvable ==
    \/ project_name = None
    \/ DictHas(remoteProjects, project_name)

\* C4: filter_issues with a status filter against a project/type without a
\* status field does not raise; the status condition is omitted and the search
\* is issued with the remaining conditions.
C4_FilterDegradesGracefully ==
    ( /\ lastOp.op = "filter_issues"
      /\ lastOp.status # None
      /\ lastOp.down = {}
      /\ p_resolved_type_key # None
      /\ ~RemoteHasField(F_status) )
    => /\ outcome.ok
       /\ Cardinality(CallIndices("search_params")) = 1
       /\ \A i \in CallIndices("search_params") :
             \A j \in DOMAIN calls[i].fields : calls[i].fields[j].field_key # "field_status"

\* C5: a provider using the default type name, in a project whose type listing
\* does not hold that name but holds other types, resolves its type key to the
\* key of the first type of the listing instead of failing.
C5_DefaultTypeFallsBack ==
    ( /\ lastOp.op # "none"
      /\ work_item_type_name = DefaultTypeName
      /\ lastOp.down = {}
      /\ ProjectResolvable
      /\ DefaultTypeName \notin RemoteTypeNames
      /\ remoteTypes # <<>> )
    => p_resolved_type_key = remoteTypes[1].type_key

\* C6: with an explicitly requested type name that the project does not have,
\* every operation fails, issues no work-item request, substitutes no other
\* type and memoizes no type key.
C6_ExplicitTypeNotFoundFails ==
    ( /\ lastOp.op # "none"
      /\ work_item_type_name # DefaultTypeName
      /\ work_item_type_name \notin RemoteTypeNames )
    => /\ ~outcome.ok
       /\ calls = <<>>
       /\ p_resolved_type_key = None

\* C6 witness: a create ran for an explicit type missing from a non-empty
\* listing, with every endpoint up, and failed.
C6_Witness ==
    /\ lastOp.op = "create_issue"
    /\ work_item_type_name = ExplicitTypeName
    /\ ExplicitTypeName \notin RemoteTypeNames
    /\ remoteTypes # <<>>
    /\ lastOp.down = {}
    /\ ProjectResolvable
    /\ ~outcome.ok

\* The option value a priority label stands for in F_priority's options (the
\* label itself when it is none of them).
PriorityOptionOf(label) ==
    IF label = "P0" THEN "opt_P0" ELSE IF label = "P1" THEN "opt_P1" ELSE label

C8_CreateSucceededReturnsId ==
    ( /\ lastOp.op = "create_issue"
      /\ CallIndices("create") # {}
      /\ "create" \notin lastOp.down )
    => /\ outcome.ok
       /\ outcome.val \in IssueIds
       /\ Cardinality(CallIndices("create")) = 1

\* C8 witness: the follow-up failed after a successful create (the update
\* request failed, or the priority field could not be resolved) and the id was
\* still returned.
C8_Witness ==
    /\ lastOp.op = "create_issue"
    /\ Truthy(lastOp.priority)
    /\ "create" \notin lastOp.down
    /\ \/ "update" \in lastOp.down /\ CallIndices("update") # {}
       \/ ~RemoteHasField(F_priority) /\ CallIndices("update") = {}
    /\ CallIndices("create") # {}
    /\ outcome = Ok("1001")

\* After create_issue: self._project_key is still unset, so resolving the
\* project key raised.
ProjectKeyFailed == ~Truthy(p_project_key)
\* After create_issue: self._resolved_type_key is still unset, so resolving
\* the type key raised (or was not reached).
TypeKeyFailed == p_resolved_type_key = None
\* A description is given and its field key cannot be resolved: get_all_fields
\* fails or lists no field of that name.
DescriptionKeyFails ==
    /\ Truthy(lastOp.description)
    /\ "fields" \in lastOp.down \/ ~RemoteHasField(F_description)
\* An assignee is given and the user key cannot be resolved: the identifier
\* is no user key itself, and the search fails or finds nobody.
AssigneeKeyFails ==
    /\ Truthy(lastOp.assignee)
    /\ ~looks_like_user_key(lastOp.assignee)
    /\ "users" \in lastOp.down \/ search_users(lastOp.assignee) = <<>>

\* C40: create_issue issues the create request only after every resolution
\* the create payload needs has succeeded: when resolving the project key,
\* the type key, the description field key or the assignee's user key fails,
\* the call raises and neither a create nor an update request was made.
C40_NoCreateBeforeResolution ==
    ( /\ lastOp.op = "create_issue"
      /\ ProjectKeyFailed \/ TypeKeyFailed \/ DescriptionKeyFails \/ AssigneeKeyFails )
    => /\ ~outcome.ok /\ outcome.err \in RemoteErrKinds
       /\ CallIndices("create") = {} /\ CallIndices("update") = {}
       /\ calls = <<>>
\* C40 witness: project, type and description field resolved, the assignee
\* was not found; create_issue raised without a request, although create
\* and update were reachable and a priority was given.
C40_Witness ==
    /\ lastOp.op = "create_issue"
    /\ ~ProjectKeyFailed /\ ~TypeKeyFailed
    /\ lastOp.description = "text" /\ ~DescriptionKeyFails
    /\ lastOp.assignee = "ghost one" /\ AssigneeKeyFails
    /\ lastOp.priority = "P0" /\ lastOp.down = {}
    /\ RemoteHasField(F_priority)
    /\ ~outcome.ok /\ calls = <<>>

\* The field keys update_issue is expected to send for the arguments provided,
\* in the order the method appends them.
ExpectedUpdateKeys ==
    (IF lastOp.name # None THEN <<"name">> ELSE <<>>)
    \o (IF lastOp.description # None THEN <<"field_description">> ELSE <<>>)
    \o (IF lastOp.priority # None THEN <<"field_priority">> ELSE <<>>)
    \o (IF lastOp.status # None THEN <<"field_status">> ELSE <<>>)
    \o (IF lastOp.assignee # None THEN <<"owner">> ELSE <<>>)

\* C9: the update-fields list update_issue sends holds exactly one entry for
\* each provided argument and none for an omitted one; an update_issue that
\* returns normally with an argument provided has sent it.
C9_UpdateOnlyProvidedFields ==
    lastOp.op = "update_issue"
    => /\ Len(calls) <= 1
       /\ \A i \in DOMAIN calls :
             /\ calls[i].api = "update"
             /\ [j \in DOMAIN calls[i].fields |-> calls[i].fields[j].field_key]
                   = ExpectedUpdateKeys
       /\ (outcome.ok /\ ExpectedUpdateKeys # <<>>) => Len(calls) = 1

\* C9 witness: update_issue(name = "", status = "open") sent exactly the name
\* and status entries.
C9_Witness ==
    /\ lastOp.op = "update_issue"
    /\ lastOp.name = ""
    /\ lastOp.status = "open"
    /\ lastOp.priority = None /\ lastOp.description = None /\ lastOp.assignee = None
    /\ Len(calls) = 1
    /\ calls[1].fields = <<[field_key |-> "name", field_value |-> ""],
                           [field_key |-> "field_status", field_value |-> "opt_open"]>>

\* C10: update_issue with no field argument sends no request to the work-item
\* API.
C10_UpdateNoFieldsNoCall ==
    ( /\ lastOp.op = "update_issue"
      /\ lastOp.name = None /\ lastOp.priority = None /\ lastOp.description = None
      /\ lastOp.status = None /\ lastOp.assignee = None )
    => calls = <<>>

\* C10 witness: such a call ran to its end (project and type resolved).
C10_Witness ==
    /\ lastOp.op = "update_issue"
    /\ lastOp.name = None /\ lastOp.priority = None /\ lastOp.description = None
    /\ lastOp.status = None /\ lastOp.assignee = None
    /\ p_resolved_type_key # None
    /\ outcome = Ok(None)
    /\ calls = <<>>

\* ------------------------------------------------------------------ claims on the MetadataManager (SpecMeta)

\* Caller p's call has returned (or raised) and its record is still at hand.
Returned(p) == pc[p] = "done"
\* Caller p queued on the level's lock, a load of the scope completed while
\* it was queued, and it took the lock before that load was one TTL old.
FollowedALoad(p) ==
    /\ Returned(p)
    /\ call[p].waited
    /\ call[p].loadedAt # Never
    /\ call[p].enteredFresh
\* Caller p's call started with a mapping for its name in the cache, and
\* that mapping came from a load of the whole scope (project list, types of
\* a project, fields of a (project, type) pair).
ReadOfLoadedMapping(p) ==
    /\ Returned(p)
    /\ call[p].op \in {"get_project_key", "get_type_key", "get_field_key"}
    /\ call[p].startVal # NoResult
    /\ call[p].startAge # "none"

\* C1: single-flight. Of the resolver calls in flight together on one stale
\* or unpopulated scope, only the first fetches: a caller that queued behind
\* a successful load of the scope issues no remote fetch of its own. (Stated
\* for the levels where one fetch loads the whole scope: the project list, a
\* project's types, a (project, type) pair's fields.)
C1_SingleFlight ==
    \A p \in Procs :
        (FollowedALoad(p) /\ call[p].op # "get_user_key") => call[p].fetches = 0

\* C2: TTL. A read of a mapping fetched at t0 returns it unchanged and
\* without a remote fetch at every t < t0 + T, and a read at t > t0 + T that
\* finds the lock free issues exactly one fetch. (A read at exactly t0 + T
\* is left open here.)
C2_TTL ==
    \A p \in Procs :
        ReadOfLoadedMapping(p) =>
            /\ call[p].startAge = "lt"
                 => (call[p].fetches = 0 /\ call[p].result = call[p].startVal)
            /\ (call[p].startAge = "gt" /\ ~call[p].waited)
                 => call[p].fetches = 1

\* C3: staleness is bounded by the TTL. No call returns from the cache a
\* mapping whose remote response is more than the level's TTL old.
C3_StalenessBounded ==
    \A p \in Procs : Returned(p) => call[p].served # "stale"

\* ------------------------------------------------------------------ claims on the field level (SpecField)

\* Caller p returns from its call in this step.
Returns(p) == pc[p] # "done" /\ pc'[p] = "done"
\* The name -> key map of the scope in a field cache.
ScopeFields(field_cache) ==
    DictGetOrEmpty(DictGetOrEmpty(field_cache, FieldScopeProject), FieldScopeType)
ScopeLoaded(field_cache) == Dict2Has(field_cache, FieldScopeProject, FieldScopeType)

\* C11: get_field_key called with a string that is not a name or alias in
\* the scope's cached field map but equals one of the map's values (a field
\* key) succeeds and returns that string unchanged.
C11_FieldValueAsKey ==
    [][\A p \in Procs :
         (Returns(p) /\ call'[p].op = "get_field_key" /\ ScopeLoaded(_field_cache')) =>
            LET field_map == ScopeFields(_field_cache')
                field_name == call'[p].name
            IN (~DictHas(field_map, field_name) /\ field_name \in DictValues(field_map))
                  => call'[p].result = Ok(field_name)]_vars

\* A caller got "field_priority" back for "field_priority", which the map
\* holds as the key of the priority field and under no name.
C11_Witness ==
    \E p \in Procs :
        /\ pc[p] = "done" /\ call[p].op = "get_field_key"
        /\ call[p].name = "field_priority"
        /\ ScopeLoaded(_field_cache)
        /\ ~DictHas(ScopeFields(_field_cache), "field_priority")
        /\ "field_priority" \in DictValues(ScopeFields(_field_cache))
        /\ call[p].result = Ok("field_priority")

\* C13 (as stated): every value v of the map list_options returns for a
\* field is accepted by get_option_value for the same scope and resolves to
\* v itself, also when v is the label of another option.
C13_OptionRoundTrip ==
    [][\A p \in Procs :
         (Returns(p) /\ call'[p].op = "get_option_value" /\ ScopeLoaded(_field_cache')) =>
            LET listed == list_options(_option_cache', call'[p].name)
                v == call'[p].arg
            IN v \in DictValues(listed) => call'[p].result = Ok(v)]_vars

\* C13 (amended): every value v of the map list_options returns is accepted
\* by get_option_value; it resolves to v itself unless v is also a label of
\* the field, and then to the value listed under that label.
C13_OptionRoundTripLabelsFirst ==
    [][\A p \in Procs :
         (Returns(p) /\ call'[p].op = "get_option_value" /\ ScopeLoaded(_field_cache')) =>
            LET listed == list_options(_option_cache', call'[p].name)
                v == call'[p].arg
            IN v \in DictValues(listed) =>
                 call'[p].result = IF DictHas(listed, v) THEN Ok(DictGet(listed, v))
                                   ELSE Ok(v)]_vars

\* A caller got "opt_P1" back for "opt_P1", a value list_options lists for
\* the priority field and no label of it.
C13_Witness ==
    \E p \in Procs :
        /\ pc[p] = "done" /\ call[p].op = "get_option_value"
        /\ call[p].arg = "opt_P1"
        /\ "opt_P1" \in DictValues(list_options(_option_cache, call[p].name))
        /\ ~DictHas(list_options(_option_cache, call[p].name), "opt_P1")
        /\ call[p].result = Ok("opt_P1")

\* The call of p loaded the scope from the remote's answer and looked a
\* field up in it.
LookedUpInAnswer(p) ==
    pc[p] = "done" /\ call[p].op = "get_field_key" /\ call[p].answer # <<>>
\* Field f of an answer carries a name, an alias and a key.
FullyNamed(f) == Truthy(f.field_name) /\ Truthy(f.field_alias) /\ Truthy(f.field_key)
\* Field f of an answer is registered under string x.
RegisteredUnder(f, x) ==
    /\ Truthy(f.field_name) /\ Truthy(f.field_key)
    /\ x = f.field_name \/ (Truthy(f.field_alias) /\ x = f.field_alias)

\* C14 (as stated): for every field the remote returns with a name n, an
\* alias a and a key k, get_field_key(n) and get_field_key(a) return k,
\* whatever other fields are returned in the same list.
C14_AliasEquivalence ==
    \A p \in Procs : LookedUpInAnswer(p) =>
        \A i \in DOMAIN call[p].answer :
            LET f == call[p].answer[i]
            IN (FullyNamed(f) /\ call[p].name \in {f.field_name, f.field_alias})
                  => call[p].result = Ok(f.field_key)

\* C14 (amended): get_field_key(n) and get_field_key(a) return k for every
\* field the remote returns with name n, alias a and key k, unless a later
\* field of the same list carries that string as its name or alias: a
\* string resolves to the key of the last field registered under it.
C14_AliasEquivalenceLastWins ==
    \A p \in Procs : LookedUpInAnswer(p) =>
        \A i \in DOMAIN call[p].answer :
            LET f == call[p].answer[i]
            IN (/\ RegisteredUnder(f, call[p].name)
                /\ \A j \in DOMAIN call[p].answer :
                      j > i => ~RegisteredUnder(call[p].answer[j], call[p].name))
                  => call[p].result = Ok(f.field_key)

\* A caller loaded a list with the priority field and got its key for the
\* alias "priority"; another got it for the name "priority_cn".
C14_Witness ==
    \E p \in Procs :
        /\ LookedUpInAnswer(p)
        /\ call[p].name = "priority"
        /\ \E i \in DOMAIN call[p].answer :
              /\ call[p].answer[i] = F_priority
              /\ \A j \in DOMAIN call[p].answer :
                    j > i => ~RegisteredUnder(call[p].answer[j], "priority")
        /\ call[p].result = Ok("field_priority")

\* ------------------------------------------------------------------ claims on the levels' maps

\* The map a resolver of the given name looks its argument up in.
LevelMapRead(op, name, project_cache, type_cache, field_cache, option_cache) ==
    CASE op = "get_project_key" -> project_cache
      [] op = "get_type_key" -> DictGetOrEmpty(type_cache, TypeScope)
      [] op = "get_field_key" -> ScopeFields(field_cache)
      [] op = "get_option_value" -> DictGetOrEmpty(ScopeOptions(option_cache), name)
      [] OTHER -> EmptyDict
\* What the resolver was asked to resolve.
Asked(c) == IF c.op = "get_option_value" THEN c.arg ELSE c.name

\* C12: at every resolution level, a supplied name that is not a key of the
\* level's map but equals one of the map's values is returned as it is,
\* instead of a not-found error.
C12_LookupByValueEveryLevel ==
    [][\A p \in Procs :
         (Returns(p) /\ call'[p].op \in {"get_project_key", "get_type_key",
                                          "get_field_key", "get_option_value"}) =>
            LET level_map == LevelMapRead(call'[p].op, call'[p].name, _project_cache',
                                          _type_cache', _field_cache', _option_cache')
                asked == Asked(call'[p])
            IN (~DictHas(level_map, asked) /\ asked \in DictValues(level_map))
                  => call'[p].result = Ok(asked)]_vars

\* C15: the project name -> key map never holds more than its configured
\* maximum of entries.
C15_ProjectCacheBounded == Len(_project_cache) <= _max_project_cache_size

\* The number of name -> key entries a dict of dicts holds.
RECURSIVE Entries(_)
Entries(d) == IF d = <<>> THEN 0 ELSE Len(Head(d).v) + Entries(Tail(d))
RECURSIVE Entries2(_)
Entries2(d) == IF d = <<>> THEN 0 ELSE Entries(Head(d).v) + Entries2(Tail(d))
RECURSIVE Entries3(_)
Entries3(d) == IF d = <<>> THEN 0 ELSE Entries2(Head(d).v) + Entries3(Tail(d))

\* C16: the type, field, option and user caches never hold more entries
\* than their configured maxima (100, 200, 500, 200).
C16_OtherCachesBounded ==
    /\ Entries(_type_cache) <= _max_type_cache_size
    /\ Entries2(_field_cache) <= _max_field_cache_size
    /\ Entries3(_option_cache) <= _max_option_cache_size
    /\ Len(_user_cache) <= _max_user_cache_size

\* ------------------------------------------------------------------ claims on the user level (SpecUser)

\* The non-empty keys of a batch_get_user_names call.
AskedKeys(c) == {c.arg[i] : i \in DOMAIN c.arg} \ {""}
\* The names the cache held for the keys of the call when it started.
Hits(c) == c.startVal.val

\* C19: batch_get_user_names never raises; keys the cache has a name for
\* are answered from the cache; the other keys go into at most one query
\* (none when every key is cached); when the query fails or does not know
\* a key, only those keys are missing from the result; every key of the
\* result maps to the name the cache or the remote gave for it.
C19_BatchNeverRaises ==
    \A p \in Procs :
        (pc[p] = "done" /\ call[p].op = "batch_get_user_names") =>
            LET c == call[p]
                result == c.result.val
            IN /\ c.result.ok
               /\ c.fetches <= 1
               /\ AskedKeys(c) \subseteq DictKeys(Hits(c)) => c.fetches = 0
               /\ \A key \in DictKeys(Hits(c)) :
                     DictHas(result, key) /\ DictGet(result, key) = DictGet(Hits(c), key)
               /\ DictKeys(result) \subseteq AskedKeys(c)
               /\ \A key \in DictKeys(result) \ DictKeys(Hits(c)) :
                     \E i \in DOMAIN c.answer :
                        /\ c.answer[i].user_key = key
                        /\ c.answer[i].name = DictGet(result, key)
                        /\ Truthy(c.answer[i].name)
               /\ \A key \in AskedKeys(c) \ DictKeys(result) :
                     \A i \in DOMAIN c.answer :
                        c.answer[i].user_key = key => ~Truthy(c.answer[i].name)

\* A call for "7001" and "9999" with "7001" cached: one query, which
\* failed or did not know "9999"; the result holds the cached name alone.
C19_Witness ==
    \E p \in Procs :
        /\ pc[p] = "done" /\ call[p].op = "batch_get_user_names"
        /\ call[p].arg = <<"7001", "9999">>
        /\ DictKeys(Hits(call[p])) = {"7001"}
        /\ call[p].fetches = 1
        /\ DictKeys(call[p].result.val) = {"7001"}

\* The identifier starts with user_, ou_, usr_ or u_, or consists only of
\* alphanumerics, '_' and '-', with length 5..100.
KeyLike(identifier) ==
    LET cs == CharsOf(identifier)
    IN \/ \E prefix \in {<<"u", "s", "e", "r", "_">>, <<"o", "u", "_">>,
                          <<"u", "s", "r", "_">>, <<"u", "_">>} : StartsWith(cs, prefix)
       \/ /\ Len(cs) \in 5..100
          /\ \A i \in DOMAIN cs : cs[i] \in AlnumChars \cup {"_", "-"}

YoungUserEntries ==
    {k \in DictKeys(_user_cache) :
        /\ DictHas(born["user"], k)
        /\ now - TimeOf(DictGet(born["user"], k)) < USER_TTL}

\* C38: get_user_key discards no user-cache entry younger than USER_TTL: an
\* entry stays in the cache until USER_TTL has elapsed since its insertion,
\* whatever identifiers get_user_key is called for in between.
C38_YoungUserEntriesAreKept ==
    [][\A k \in YoungUserEntries : DictHas(_user_cache', k)]_vars

\* ------------------------------------------------------------------ claims on the provider's name caches (SpecNames)

\* How the last query for a key had ended when the call started, if there
\* was one.
QueriedBefore(c, key) == DictHas(c.startVal.val, key)
LastOutcome(c, key) == DictGet(c.startVal.val, key)
\* The call started less than ttl after that query.
Within(c, key, ttl) == TimeOf(c.loadedAt) - LastOutcome(c, key).at < ttl

\* C17: after a lookup in which the query of the item's own type completed
\* without returning id X, a further lookup of X within the 300 s of the
\* work-item cache sends no query for X and reports no name for X; after a
\* lookup whose query raised, the next lookup of X queries again.
C17_NegativeWorkItemCache ==
    \A p \in Procs :
        (pc[p] = "done" /\ call[p].op = "enhance_names") =>
            LET c == call[p]
            IN \A X \in Elements(c.arg.work_item_ids) :
                 QueriedBefore(c, ToString(X)) =>
                    /\ (/\ LastOutcome(c, ToString(X)).outcome = "missed"
                        /\ Within(c, ToString(X), WORK_ITEM_NAME_TTL)) =>
                           /\ X \notin Elements(c.pending.items)
                           /\ X \notin Elements(c.pending.other)
                           /\ ~DictHas(c.result.val.work_item_map, X)
                    /\ LastOutcome(c, ToString(X)).outcome = "raised" =>
                           X \in Elements(c.pending.items)

\* C18: after a query_users request that completed without returning user
\* key K, a lookup of K within the 600 s of the user cache does not ask the
\* remote for K again.
C18_NegativeUserCache ==
    \A p \in Procs :
        (pc[p] = "done" /\ call[p].op = "enhance_names") =>
            LET c == call[p]
            IN \A K \in Elements(c.arg.user_keys) :
                 (/\ QueriedBefore(c, K)
                  /\ LastOutcome(c, K).outcome = "missed"
                  /\ Within(c, K, USER_NAME_TTL)) =>
                        K \notin Elements(c.pending.users)

\* ------------------------------------------------------------------ claims on field extraction (SpecExtract)

\* The entry the extraction is to read: the first `fields` entry with the
\* key, else the first `field_value_pairs` entry with it.
Extracting == lastOp.op = "_extract_field_value"
ChosenFrom(item, k) ==
    IF HasEntry(item.fields, k) THEN FirstEntry(item.fields, k).field_value
    ELSE FirstEntry(item.field_value_pairs, k).field_value

\* C23: _extract_field_value(item, k) reads the `fields` entry with key k when
\* there is one and falls back to `field_value_pairs` only otherwise; it
\* returns the label (else the value) of a {label, value} object, the name
\* (else name_cn) of the first element of a non-empty list of objects, the
\* string form of a scalar, and None when k is in neither list.
C23_DualShapeExtraction ==
    Extracting =>
        LET item == lastOp.args.item
            k == lastOp.args.field_key
            result == outcome.val
        IN IF ~HasEntry(item.fields, k) /\ ~HasEntry(item.field_value_pairs, k)
           THEN result = None
           ELSE LET value == ChosenFrom(item, k)
                IN /\ value.t = "dict" => result = StrOr(value.a, value.b)
                   /\ (value.t = "list" /\ value.l # <<>> /\ value.l[1].t = "dict") =>
                         result = StrOr(value.l[1].name, value.l[1].name_cn)
                   /\ value.t = "str" => result = value.a
                   /\ value.t = "int" => result = ToString(value.n)

\* ------------------------------------------------------------------ claims on get_tasks (SpecTasks)

TasksEnded == lastOp.op = "get_tasks"
\* The project and type keys were resolved: the strategy was entered.
TasksRouted == TasksEnded /\ p_resolved_type_key # None
CallsTo(api) == {i \in DOMAIN calls : calls[i].api = api}
OnlyRelatedTo ==
    /\ IdGiven(lastOp.args.related_to) /\ ~Truthy(lastOp.args.name_keyword)
    /\ ~PySeqTruthy(lastOp.args.status) /\ ~PySeqTruthy(lastOp.args.priority)
    /\ ~Truthy(lastOp.args.owner)

\* C21: a get_tasks call that resolved its project and type, with no endpoint
\* failing, uses exactly one strategy: with only related_to it issues filter
\* requests and no search_params request; with a name_keyword exactly one
\* filter request and no search_params request; otherwise exactly one
\* search_params request and no filter request.
C21_OneStrategyPerCall ==
    TasksRouted /\ lastOp.args.down = {} =>
        IF OnlyRelatedTo
        THEN CallsTo("filter") # {} /\ CallsTo("search_params") = {}
        ELSE IF Truthy(lastOp.args.name_keyword)
        THEN Cardinality(CallsTo("filter")) = 1 /\ CallsTo("search_params") = {}
        ELSE Cardinality(CallsTo("search_params")) = 1 /\ CallsTo("filter") = {}

\* C30: the related_to-only scan ends with a result once the project and
\* type are resolved, and whatever the pages answer it requests only pages
\* 1..MAX_PAGES, each at most once, with at most CONCURRENT_PAGES requests in
\* one round.
C30_ScanIsBounded ==
    TasksEnded /\ OnlyRelatedTo =>
        /\ TasksRouted => outcome.ok
        /\ \A i \in DOMAIN calls :
              calls[i].api = "filter" /\ calls[i].page_num \in 1..MAX_PAGES
        /\ \A i, j \in DOMAIN calls : calls[i].page_num = calls[j].page_num => i = j
        /\ \A i \in DOMAIN calls :
              Cardinality({j \in DOMAIN calls : calls[j].round = calls[i].round})
                  <= CONCURRENT_PAGES

\* Every page raised, and the scan still asked for each of the MAX_PAGES pages.
C30_Witness ==
    /\ TasksEnded /\ OnlyRelatedTo
    /\ lastOp.args.pattern = PagePattern("raise", 1, "raise")
    /\ Len(calls) = MAX_PAGES
    /\ outcome.ok

\* The scan ran: only related_to was given, project and type resolved.
ScanEnded == TasksRouted /\ OnlyRelatedTo
\* What the remote answered page by page during the scan.
ScanPages ==
    IF "filter" \in lastOp.args.down THEN [q \in 1..MAX_PAGES |-> RaisedPage]
    ELSE PagesOf(lastOp.args.pattern)
\* The pages the scan requested, and those among them fetched successfully.
ScanRequested == {calls[i].page_num : i \in DOMAIN calls}
ScanFetched == {q \in ScanRequested : ScanPages[q].shape # "raise"}
\* The items a fetched page carries (none for an answer of another shape).
ItemsOn(q) == IF ScanPages[q].shape \in {"list", "dict"} THEN ScanPages[q].items ELSE <<>>
\* The round page q belongs to: CONCURRENT_PAGES pages per round.
RoundOf(q) == ((q - 1) \div CONCURRENT_PAGES) + 1
\* Item it refers to the work item wanted, in one of its fields.
RefersTo(it, id) ==
    \E i \in DOMAIN it.fields :
        LET v == it.fields[i].field_value
        IN \/ v.t = "int" /\ v.n = id
           \/ v.t = "list" /\ \E j \in DOMAIN v.l : v.l[j] = IntElement(id)

\* C31: in the related_to-only scan, once a successfully fetched page of a
\* round holds fewer than BATCH_SIZE items (none included), no page of a
\* later round is requested, and the matching items of every successfully
\* fetched page, those of the last round included, are in the result.
C31_EarlyStopKeepsTheRound ==
    ScanEnded =>
        /\ \A q \in ScanFetched :
              Len(ItemsOn(q)) < BATCH_SIZE =>
                  \A r \in ScanRequested : RoundOf(r) <= RoundOf(q)
        /\ \A q \in ScanFetched : \A k \in DOMAIN ItemsOn(q) :
              RefersTo(ItemsOn(q)[k], lastOp.args.related_to) =>
                  \E m \in DOMAIN outcome.val.items : outcome.val.items[m] = ItemsOn(q)[k]
\* Page 3 of the first round is short: the round's five pages are the only
\* ones requested and the matching item of each of them is returned.
C31_Witness ==
    /\ ScanEnded /\ lastOp.args.down = {}
    /\ lastOp.args.pattern = PagePattern("full", 3, "short")
    /\ ScanRequested = 1..CONCURRENT_PAGES
    /\ Len(outcome.val.items) = CONCURRENT_PAGES

\* The name_keyword strategy ran and answered.
KeywordEnded == TasksRouted /\ Truthy(lastOp.args.name_keyword) /\ outcome.ok
\* The owner asked for resolves to a user key.
OwnerResolves ==
    get_user_key(lastOp.args.owner, lastOp.args.down, lastOp.args.kind).ok
\* The owner values item it carries, in either of its entry lists.
OwnerValues(it) ==
    {e.field_value : e \in {(it.fields \o it.field_value_pairs)[i] :
                                i \in DOMAIN (it.fields \o it.field_value_pairs)} \cap
                            {e \in {(it.fields \o it.field_value_pairs)[i] :
                                i \in DOMAIN (it.fields \o it.field_value_pairs)} :
                                e.field_key = "owner" /\ PyTruthy(e.field_value)}}
\* An owner value names the user asked for: by the user key, or by the name.
NamesOwner(v, owner, user_key) ==
    CASE v.t = "str"  -> v.a = user_key \/ LowerChars(v.a) = LowerChars(owner)
      [] v.t = "list" -> \E j \in DOMAIN v.l :
                            v.l[j].name # None /\ LowerChars(v.l[j].name) = LowerChars(owner)
      [] OTHER        -> FALSE
\* The priority labels item it carries.
PriorityLabels(it) ==
    {(it.fields \o it.field_value_pairs)[i].field_value.a :
        i \in {j \in DOMAIN (it.fields \o it.field_value_pairs) :
                  (it.fields \o it.field_value_pairs)[j].field_key = "priority"}}
ReturnedItems == {outcome.val.items[m] : m \in DOMAIN outcome.val.items}
\* Each filter supplied to the name_keyword strategy holds of every item
\* returned.
PriorityFilterHolds ==
    PySeqTruthy(lastOp.args.priority) =>
        \A it \in ReturnedItems :
            \E i \in DOMAIN lastOp.args.priority : lastOp.args.priority[i] \in PriorityLabels(it)
RelatedFilterHolds ==
    IdGiven(lastOp.args.related_to) =>
        \A it \in ReturnedItems : RefersTo(it, lastOp.args.related_to)
OwnerFilterHolds ==
    Truthy(lastOp.args.owner) /\ OwnerResolves =>
        \A it \in ReturnedItems :
            \E v \in OwnerValues(it) :
                NamesOwner(v, lastOp.args.owner,
                           get_user_key(lastOp.args.owner, lastOp.args.down, lastOp.args.kind).val)

\* C32: in the name_keyword strategy every item returned satisfies each of
\* the priority, owner and related_to filters supplied (the owner being
\* resolvable): under an owner filter an item without an owner value, or
\* with another owner, is never returned.
C32_ClientSideFilterIsSound ==
    KeywordEnded => PriorityFilterHolds /\ OwnerFilterHolds /\ RelatedFilterHolds
\* The part of C32 on the priority and related_to filters, which the code
\* keeps.
C32_PriorityAndRelatedAreSound ==
    KeywordEnded => PriorityFilterHolds /\ RelatedFilterHolds
\* Under an owner filter, the items returned that carry an owner value name
\* the owner asked for.
C32_OwnersGivenAreTheRequested ==
    KeywordEnded /\ Truthy(lastOp.args.owner) /\ OwnerResolves =>
        \A it \in ReturnedItems : \A v \in OwnerValues(it) :
            NamesOwner(v, lastOp.args.owner,
                       get_user_key(lastOp.args.owner, lastOp.args.down, lastOp.args.kind).val)

\* ------------------------------------------------------------------ claims on resolve_related_to (SpecTasks)

RelatedEnded == lastOp.op = "resolve_related_to"
\* The argument is a name: a string that is neither empty nor a numeral.
FreeText ==
    /\ RelatedEnded /\ lastOp.args.related_to.t = "str"
    /\ lastOp.args.related_to.a \notin {"", "102"}
\* The probe of type s can be sent: the project and the type resolve.
Probeable(s) ==
    /\ p_project_key # None \/ "projects" \notin lastOp.args.down
    /\ "types" \notin lastOp.args.down
    /\ \E j \in DOMAIN remoteTypes : remoteTypes[j].name = s
\* What the keyword search of type s returns; nothing when it raises.
ProbeReturns(s) ==
    IF Probeable(s) /\ "filter" \notin lastOp.args.down
       /\ lastOp.args.results[s].shape \in {"list", "dict"}
    THEN lastOp.args.results[s].items ELSE <<>>
ProbeHits == {i \in DOMAIN search_types : ProbeReturns(search_types[i]) # <<>>}
FirstHit == CHOOSE i \in ProbeHits : \A j \in ProbeHits : i <= j
\* The types probed: in order, up to the first hit.
Probed ==
    SelectSeq(search_types,
              LAMBDA s : /\ Probeable(s)
                         /\ \A i \in ProbeHits : \E j \in 1..i : search_types[j] = s)

\* C22: given a name, resolve_related_to probes search_types in order up to
\* the first type whose search returns items (a probe that raises returns
\* none); the result is the id of an item of that type named exactly so, or
\* of its first item when none is; with no hit it raises ValueError.
C22_FirstTypeExactThenFirst ==
    FreeText =>
        /\ Len(calls) = Len(Probed)
        /\ \A i \in DOMAIN calls :
              calls[i].api = "filter" /\ calls[i].type_key = "tk_" \o Probed[i]
        /\ IF ProbeHits = {} THEN outcome = Err("ValueError")
           ELSE LET items == ProbeReturns(search_types[FirstHit])
                    text == lastOp.args.related_to.a
                IN /\ outcome.ok
                   /\ IF \E i \in DOMAIN items : items[i].name = text
                      THEN \E i \in DOMAIN items :
                              items[i].name = text /\ outcome.val = items[i].id
                      ELSE outcome.val = items[1].id

\* The first existing type raised, the next returned three items of which
\* the second carries the name.
C22_Witness ==
    /\ FreeText /\ Len(calls) = 2
    /\ ProbeHits # {} /\ search_types[FirstHit] = "task"
    /\ lastOp.args.results["requirement management"].shape = "raise"
    /\ outcome.ok /\ outcome.val = LinkedItem.id

\* ------------------------------------------------------------------ claims on authentication (SpecAuth)

\* Caller p's get_plugin_token call went past the static token and the
\* credentials check, at a time when the last successful fetch was still
\* within its lifetime less the margin.
CalledWithinLifetime(p) ==
    /\ flow[p].pc # "idle"
    /\ ~Truthy(settings.FEISHU_PROJECT_USER_TOKEN)
    /\ flow[p].good # <<>>
    /\ flow[p].startedAt < flow[p].good[1].at + flow[p].good[1].expire - EXPIRY_BUFFER

\* C26: once a plugin token was fetched, a get_plugin_token call made before
\* (fetch time + expire - 60 s) sends no token request and returns that
\* token.
C26_TokenCachedUntilExpiry ==
    \A p \in Procs :
        CalledWithinLifetime(p) =>
            /\ ~flow[p].fetched
            /\ flow[p].pc = "yielded" => flow[p].token = flow[p].good[1].token

\* C27: a flow that has no plugin token raises TokenError and yields no
\* request: every request sent carries X-PLUGIN-TOKEN.
C27_NoRequestWithoutToken ==
    /\ \A p \in Procs :
          flow[p].pc = "yielded" /\ ~Truthy(flow[p].token) => flow[p].raised = "TokenError"
    /\ \A i \in DOMAIN sent : sent[i].plugin_token # None

\* ------------------------------------------------------------------ claims on the retrying client (SpecClient)

IsResponse(reply) == reply.exc = ""
Is5xx(reply) == IsResponse(reply) /\ reply.status >= 500
Is4xx(reply) == IsResponse(reply) /\ reply.status \in 400..499
IsConnectOrTimeout(reply) ==
    reply.exc \in {"ConnectError", "ReadTimeout", "WriteTimeout", "ConnectTimeout",
                   "PoolTimeout"}
Attempts == client_request.replies
RequestDone == client_request.pc = "done"

C25_ClientErrorSingleAttempt ==
    RequestDone /\ (\E i \in DOMAIN Attempts : Is4xx(Attempts[i]))
        => /\ Len(Attempts) = 1
           /\ client_request.result.ok
           /\ client_request.result.val = Attempts[1].status

\* C25, amended: a 4xx response is never followed by another attempt and is
\* the outcome of the request; a request whose first response is 4xx makes
\* exactly one attempt.
C25_ClientErrorEndsRequest ==
    \A i \in DOMAIN Attempts :
        Is4xx(Attempts[i])
            => /\ i = Len(Attempts) /\ RequestDone
               /\ client_request.result.ok
               /\ client_request.result.val = Attempts[i].status

\* A 4xx response after a retried 5xx response ended the request.
C25_Witness ==
    /\ RequestDone /\ Len(Attempts) = 2
    /\ Is5xx(Attempts[1]) /\ Is4xx(Attempts[2])
    /\ client_request.result.ok /\ client_request.result.val = Attempts[2].status

\* ------------------------------------------------------------------ claims on clear_cache (SpecClear)

\* A step in which clear_cache runs.
ClearCacheReturns == cleared'.times = cleared.times + 1
\* Every level is dropped: the six maps are empty, the timestamps unset.
EveryLevelDropped ==
    /\ _project_cache = EmptyDict /\ _type_cache = EmptyDict
    /\ _field_cache = EmptyDict /\ _option_cache = EmptyDict
    /\ _role_cache = EmptyDict /\ _user_cache = EmptyDict
    /\ _project_last_loaded = Never /\ _user_last_loaded = Never
    /\ _type_last_loaded = EmptyDict /\ _field_last_loaded = EmptyDict
\* A step in which caller p starts the first name resolution since the last
\* clear_cache (an identifier that looks like a user key is not resolved).
NextResolutionStarts(p) ==
    /\ cleared.times > 0 /\ ncalls = cleared.calls
    /\ pc[p] = "idle" /\ pc'[p] # "idle"
    /\ ~(call'[p].op = "get_user_key" /\ looks_like_user_key(call'[p].name))
\* The resolution caller p has just started is on its way to the remote: it
\* awaits a fetch of its own, or the lock another caller's load holds.
GoesToRemote(p) == call'[p].fetches > 0 \/ pc'[p] = "wait"

\* C28: clear_cache drops every level: right after it the project, type,
\* field, option, role and user maps are empty and every last-loaded
\* timestamp is unset, whatever the state before, and the next name
\* resolution, at whichever level, is not answered from a cache but goes to
\* the remote.
C28_ClearDropsEveryLevel ==
    [][/\ ClearCacheReturns => EveryLevelDropped'
       /\ \A p \in Procs : NextResolutionStarts(p) => GoesToRemote(p)]_vars

\* C36: clear_cache may run at any time: a type or field resolver whose
\* load was awaiting its answer meanwhile still completes normally, with the
\* key or with the not-found error, and no internal error (KeyError) is
\* raised when it stores what it fetched.
C36_ClearCacheIsSafeAnyTime ==
    \A p \in Procs :
        pc[p] = "done" /\ call[p].op \in {"get_type_key"} \cup FieldLevelOps
            => call[p].result.ok \/ call[p].result.err = "Exception"

\* ------------------------------------------------------------------ claims on the field scope's fan-out (SpecFanOut)

\* The field, option and role maps the manager holds for the scope.
ScopeFieldMap ==
    DictGetOrEmpty(DictGetOrEmpty(_field_cache, FieldScopeProject), FieldScopeType)
ScopeOptionMap == ScopeOptions(_option_cache)
ScopeRoleMap == ScopeRoles(_role_cache)
\* The scope is in the field cache.
ScopePopulated == Dict2Has(_field_cache, FieldScopeProject, FieldScopeType)
\* The scope was loaded, and not more than the field TTL ago.
ScopeLoadedWithinTTL ==
    LET last_loaded == Dict2GetOrNever(_field_last_loaded, FieldScopeProject, FieldScopeType)
    IN last_loaded # Never /\ now - TimeOf(last_loaded) <= FIELD_TTL
\* The three maps of the scope come from one and the same response.
FromOneResponse ==
    \E fields \in FieldResponses :
        /\ ScopeFieldMap = FieldMapFill(EmptyDict, fields)
        /\ ScopeOptionMap = OptionMapFill(EmptyDict, fields)
        /\ ScopeRoleMap = RoleMapFill(EmptyDict, fields)
\* A step in which the caller's resolver calls get_all_fields.
CallsGetAllFields == call'[Caller].fetches > call[Caller].fetches
\* A resolver call is in progress or has just returned.
FanOutCalled == pc[Caller] # "idle" /\ call[Caller].op \in FieldLevelOps

\* C29 as stated: of the resolver calls made within the field TTL on one
\* scope, whichever of the six resolvers they are, the first causes the one
\* get_all_fields call and every later one causes none; the field, option
\* and role maps of the scope are populated from that single response.
C29_ExactlyOneRemoteCall ==
    /\ (FanOutCalled /\ ncalls = 1) => call[Caller].fetches = 1
    /\ (FanOutCalled /\ ncalls > 1 /\ now <= FIELD_TTL) => call[Caller].fetches = 0
    /\ ScopePopulated => FromOneResponse

\* C29, amended: a resolver calls get_all_fields only when the scope holds
\* no load younger than the field TTL (never loaded, the load failed, or
\* the TTL has passed), the first call always does, and whenever the scope
\* is populated its field, option and role maps come from one response.
C29_OneAnsweredLoadPerTTL ==
    /\ [][CallsGetAllFields => ~ScopeLoadedWithinTTL]_vars
    /\ []((FanOutCalled /\ ncalls = 1) => call[Caller].fetches = 1)
    /\ [](ScopePopulated => FromOneResponse)
\* A role is resolved from the maps an earlier call's response populated,
\* with no remote call of its own.
C29_Witness ==
    /\ pc[Caller] = "done" /\ call[Caller].op = "get_role_key"
    /\ ncalls > 1 /\ call[Caller].fetches = 0
    /\ call[Caller].result.ok /\ call[Caller].result.val = "role_a06e00"
    /\ ScopeLoadedWithinTTL /\ ScopeFieldMap # EmptyDict /\ ScopeOptionMap # EmptyDict

\* ------------------------------------------------------------------ claims on failed fetches (SpecMeta)

\* The remote call a resolver of caller p is suspended on raises.
FetchFails(p) ==
    GetProjectKeyFailed(p) \/ GetTypeKeyFailed(p) \/ EnsureFieldCacheFailed(p)
\* The call of caller p ended with the exception.
EndedRaising(p) == pc[p] = "done" /\ call[p].result = Err("Exception")
\* The maps and timestamps of the three levels loaded scope by scope.
LevelCaches ==
    <<_project_cache, _project_last_loaded, _type_cache, _type_last_loaded,
      _field_cache, _option_cache, _role_cache, _field_last_loaded>>
\* The level's scope carries no last-loaded timestamp.
StampUnset ==
    CASE level = "project" -> _project_last_loaded = Never
      [] level = "type"    -> ~DictHas(_type_last_loaded, TypeScope)
      [] OTHER             ->
            ~Dict2Has(_field_last_loaded, FieldScopeProject, FieldScopeType)
\* The level's scope holds no entry (for the field scope: no field map and no
\* option map).
ScopeEmpty ==
    CASE level = "project" -> _project_cache = EmptyDict
      [] level = "type"    -> DictGetOrEmpty(_type_cache, TypeScope) = EmptyDict
      [] OTHER             ->
            /\ ~Dict2Has(_field_cache, FieldScopeProject, FieldScopeType)
            /\ ~Dict2Has(_option_cache, FieldScopeProject, FieldScopeType)
\* A call for `name` would be answered on the fast path, with no fetch.
AnsweredFromCache(name) ==
    CASE level = "project" ->
            /\ DictHas(_project_cache, name)
            /\ ~_is_cache_expired(_project_last_loaded, PROJECT_TTL, now)
      [] level = "type" ->
            /\ DictHas(DictGetOrEmpty(_type_cache, TypeScope), name)
            /\ ~_is_cache_expired(DictGetOrNever(_type_last_loaded, TypeScope), TYPE_TTL, now)
      [] OTHER ->
            /\ Dict2Has(_field_cache, FieldScopeProject, FieldScopeType)
            /\ ~_is_cache_expired(Dict2GetOrNever(_field_last_loaded, FieldScopeProject,
                                                   FieldScopeType), FIELD_TTL, now)

\* C33: a remote fetch failure inside a resolver propagates to its caller
\* and leaves the scope unpopulated with its timestamp unset, so the next
\* call for the scope fetches again.
C33_FailureLeavesScopeUnloaded ==
    [][\A p \in Procs :
          FetchFails(p) =>
              /\ EndedRaising(p)'
              /\ ScopeEmpty' /\ StampUnset'
              /\ ~AnsweredFromCache(call[p].name)']_vars

\* C33, amended: the failure propagates and the failing call stores
\* nothing: maps and timestamps stay as they were when the fetch was issued
\* (an unloaded or expired scope empty with its timestamp unset, a scope
\* still fresh as its earlier load left it, the field scope always without
\* field map, option map and timestamp), and the next call for the same name
\* fetches again.
C33_FailedFetchStoresNothing ==
    [][\A p \in Procs :
          FetchFails(p) =>
              /\ EndedRaising(p)'
              /\ UNCHANGED LevelCaches
              /\ StampUnset' => ScopeEmpty'
              /\ level = "field" => ScopeEmpty' /\ StampUnset'
              /\ ~AnsweredFromCache(call[p].name)']_vars
\* get_all_fields raised on a caller while nobody else was loading: the
\* field scope is left without maps and without timestamp.
C33_Witness ==
    /\ level = "field"
    /\ \E p \in Procs :
          /\ EndedRaising(p) /\ call[p].fetches = 1
          /\ \A q \in Procs \ {p} : pc[q] = "idle"
    /\ ScopeEmpty /\ StampUnset

\* ------------------------------------------------------------------ claims on a scope among others (SpecScopes)

\* What a dict project -> type -> value holds outside the field scope in
\* use: the other projects, and the inner entries of the other scopes.
OutsideFieldScope(d) ==
    <<DictKeys(d) \ {FieldScopeProject},
      UNION {{<<d[i].k, d[i].v[j].k, d[i].v[j].v>> : j \in DOMAIN d[i].v} : i \in DOMAIN d}
      \ {t \in UNION {{<<d[i].k, d[i].v[j].k, d[i].v[j].v>> : j \in DOMAIN d[i].v} : i \in DOMAIN d} :
            t[1] = FieldScopeProject /\ t[2] = FieldScopeType}>>
\* What a dict project -> value holds outside the type scope in use.
OutsideTypeScope(d) == {<<d[i].k, d[i].v>> : i \in {j \in DOMAIN d : d[j].k # TypeScope}}
ProjectLevel == <<_project_cache, _project_last_loaded>>
TypeLevel == <<_type_cache, _type_last_loaded>>
FieldLevel == <<_field_cache, _option_cache, _role_cache, _field_last_loaded>>
OtherTypeScopes == <<OutsideTypeScope(_type_cache), OutsideTypeScope(_type_last_loaded)>>
OtherFieldScopes ==
    <<OutsideFieldScope(_field_cache), OutsideFieldScope(_option_cache),
      OutsideFieldScope(_role_cache), OutsideFieldScope(_field_last_loaded)>>

\* C34: whatever a resolver does to the scope it works on (expire it, load
\* it, fail to load it), the maps and last-loaded timestamps of every other
\* scope of its level and of every other level stay as they are.
C34_ScopesAreIndependent ==
    [][/\ level = "project" => UNCHANGED <<TypeLevel, FieldLevel>>
       /\ level = "type" => UNCHANGED <<ProjectLevel, OtherTypeScopes, FieldLevel>>
       /\ level = "field" => UNCHANGED <<ProjectLevel, TypeLevel, OtherFieldScopes>>]_vars
\* The field scope in use expired and was loaded again, next to the scopes
\* of the other type and of the other project loaded at time 0.
C34_Witness ==
    /\ level = "field"
    /\ Dict2Has(_field_cache, FieldScopeProject, FieldScopeType)
    /\ TimeOf(Dict2GetOrNever(_field_last_loaded, FieldScopeProject, FieldScopeType)) >= FIELD_TTL
    /\ Dict2GetOrNever(_field_last_loaded, FieldScopeProject, OtherType) = At(0)
    /\ Dict2GetOrNever(_field_last_loaded, OtherProject, FieldScopeType) = At(0)

\* ------------------------------------------------------------------ claims on the locks (FairTypeKey)

\* The locks task p holds, and those it is queued on.
AllLocks ==
    [provider |-> _type_key_lock, project |-> _project_lock, type |-> _type_lock,
     field |-> _cache_lock, user |-> _user_lock]
Holds(p) == {l \in DOMAIN AllLocks : p \in AllLocks[l].holder}
QueuedOn(p) == {l \in DOMAIN AllLocks : p \in Queued(AllLocks[l])}
ManagerLocks == {"project", "type", "field", "user"}
\* The call task p started has returned or raised to it; or it is under way.
Completed(p) == pc[p] = "done" /\ call[p].arg # FromProvider
Pending(p) == pc[p] # "idle" /\ ~Completed(p)
\* A call that has returned or raised holds no lock and waits for none; a
\* manager call that returned to the provider has released the manager's.
LocksReleased ==
    \A p \in Procs :
        /\ pc[p] = "idle" \/ Completed(p) => Holds(p) = {} /\ QueuedOn(p) = {}
        /\ pc[p] = "done" => Holds(p) \cap ManagerLocks = {} /\ QueuedOn(p) = {}
\* Locks nest in one order only: a task under or queued on a manager lock
\* from inside _get_type_key holds the provider's lock, a task queued on the
\* provider's lock holds nothing, and no task has two manager locks.
LocksNestInOrder ==
    \A p \in Procs :
        /\ InTypeKey(p) /\ pc[p] # "tk_wait" => Holds(p) \cap {"provider"} # {}
        /\ "provider" \in QueuedOn(p) => Holds(p) = {}
        /\ Cardinality((Holds(p) \cup QueuedOn(p)) \cap ManagerLocks) <= 1
        /\ ~InTypeKey(p) => "provider" \notin Holds(p) \cup QueuedOn(p)

EntersTypeKey(p) ==
    \/ ProviderGetTypeKey(p) /\ pc'[p] # "tk_wait"
    \/ ProviderTypeKeyResumed(p)
\* A resolution through the manager ends, for task p, with the type key;
\* or with an exception.
ResolutionSucceeds(p) == TypeKeyReturned(p) /\ call[p].result.ok
ResolutionFails(p) ==
    (TypeKeyReturned(p) \/ ProjectKeyReturned(p)) /\ ~call[p].result.ok

Scoped(m) == Dict2Put(EmptyDict, FieldScopeProject, FieldScopeType, m)
\* What the resolver of record c answers from the maps one response yields.
AnswerFrom(c, fields) ==
    EnsuredAnswer(c, Scoped(FieldMapFill(EmptyDict, fields)),
                  Scoped(OptionMapFill(EmptyDict, fields)),
                  Scoped(RoleMapFill(EmptyDict, fields)))
\* The step in which _ensure_field_cache returns to the resolver of caller p
\* and the resolver reads the scope: from the fast path, from the recheck
\* under the lock, or after the maps were stored (the timestamp is set then).
ReadsScope(p) ==
    /\ pc[p] # "done" /\ pc'[p] = "done"
    /\ call'[p].op \in FieldLevelOps
    /\ pc[p] = "load" => _field_last_loaded' # _field_last_loaded
\* The caller's refresh of a scope that answered its name failed.
RefreshFailed(p) ==
    /\ pc[p] = "done" /\ call[p].op = "get_role_key"
    /\ call[p].startVal.ok /\ call[p].fetches = 1
    /\ call[p].answer = <<>> /\ ~call[p].result.ok

\* C39: whenever a resolver reads a (project, type) scope, the field map,
\* the option map and the role map of the scope come from one and the same
\* get_all_fields response, and what the resolver answers is what that
\* response yields; this also after a refresh of the scope has failed.
C39_ReadersSeeOneGeneration ==
    [][\A p \in Procs :
         ReadsScope(p) =>
            /\ ScopePopulated'
            /\ \E fields \in FieldResponses :
                 /\ ScopeFieldMap' = FieldMapFill(EmptyDict, fields)
                 /\ ScopeOptionMap' = OptionMapFill(EmptyDict, fields)
                 /\ ScopeRoleMap' = RoleMapFill(EmptyDict, fields)
                 /\ call'[p].result = AnswerFrom(call'[p], fields)]_vars
\* One caller's refresh of a scope that held the role failed; the other
\* caller then loaded a response without roles and did not find the role.
C39_Witness ==
    \E a, b \in Procs :
        /\ a # b /\ RefreshFailed(a)
        /\ pc[b] = "done" /\ call[b].op = "get_role_key" /\ call[b].fetches = 1
        /\ call[b].answer = <<F_priority>> /\ ~call[b].result.ok
        /\ ScopePopulated /\ ScopeRoleMap = EmptyDict

====
